---- MODULE Spec2Model ----
(***************************************************************************)
(* The audio playback hook useAudioPlayer (src/types.ts, lines 53-302) as  *)
(* a state machine: the React state of the hook, its mutable refs, the     *)
(* Web Audio output nodes it creates, the loadAndPlay requests in flight   *)
(* and the IndexedDB audio cache (src/utils/db.ts).                        *)
(*                                                                         *)
(* React state is kept twice: nextState/nextConfig are the values the      *)
(* queued updaters have produced, audioState/audioConfig are the values of *)
(* the last committed render, which is what the useCallback closures and   *)
(* audioStateRef read.  Updates queued by a promise continuation, a frame  *)
(* callback or an ended event are committed by a later Render step;        *)
(* updates queued by a handler of the player's controls (play/pause, seek) *)
(* are committed, effects included, before any other task runs, so those   *)
(* actions end with the commit.                                            *)
(*                                                                         *)
(* Time is the AudioContext clock, counted in whole ticks; buffer          *)
(* durations and playback speeds are whole numbers, so every position the  *)
(* code computes is an integer.  A render that is pending was scheduled    *)
(* when its update was queued: it is committed before the clock advances   *)
(* by a tick and before the result of a cache read, a synthesis call or a  *)
(* decode arrives.  A frame callback, an ended event or a call into the    *)
(* player may still run before it.                                         *)
(***************************************************************************)
EXTENDS Integers, FiniteSets, Sequences, TLC

\* ---------------------------------------------------------------- bounds
MaxGen == 2
MaxBurst == 3
MaxTime == 3
MaxToggles == 3
MaxClock == 4
MaxPlayed == 4
MaxClicks == 3
MaxEnds == 3
MaxServerTicks == 2
MaxRejected == 1
MaxOffset == 4
MaxToggleCalls == 3
MaxToggleTime == 2

\* ------------------------------------------------------------ input sets
Voices == {"Kore", "Puck"}
AVAILABLE_VOICES == {"Kore", "Puck", "Charon", "Fenrir", "Zephyr"}
Speeds == {1, 2}
Tracks == { [chapterIndex |-> 0, text |-> "a"], [chapterIndex |-> 1, text |-> "b"] }
TextDuration(text) == IF text = "a" THEN 2 ELSE 3
\* texts that are empty or only whitespace
BlankTracks == { [chapterIndex |-> 0, text |-> ""], [chapterIndex |-> 1, text |-> " "] }
SeekTimes == {-1, 1, 4}
\* the values the volume slider is moved to (the initial volume is 1)
Volumes == {0, 1}
\* the paragraphs the selected chapter's content splits into; each decodes to a
\* buffer of ParagraphDuration ticks
Paragraphs == <<"p0", "p1">>
ParagraphDuration == 1
\* the document: Chapters top-level chapters, all of them listed
Chapters == 3
VisibleChapters == <<0, 1, 2>>
\* the client addresses the API sees ('unknown' when a request carries none), and
\* the requests made: one client calls every endpoint, another the plan endpoint
ClientIps == {"203.0.113.7", "unknown"}
ApiRequests == {<<"203.0.113.7", "generate-plan">>, <<"203.0.113.7", "generate-summary">>,
                <<"203.0.113.7", "generate-speech">>, <<"unknown", "generate-plan">>}
\* the paragraphs toggleAudio is called for (the second has no content), and the
\* duration of the buffer every paragraph decodes to
ToggleTracks == { [text |-> "t", chapterIndex |-> 0, paragraphIndex |-> 0],
                  [text |-> "u", chapterIndex |-> 0, paragraphIndex |-> 1],
                  [text |-> "", chapterIndex |-> 0, paragraphIndex |-> 2] }
ToggleDuration == 2
\* the persisted audio config the hook starts from, and the clips the store holds then
Configs == { [voice |-> "Kore", speed |-> 1], [voice |-> "Puck", speed |-> 2] }
InitialCaches == { [k \in {"Kore::a"} |-> [voice |-> "Kore", text |-> "a"]] }

\* ------------------------------------------------------------ null values
NoNode == 0
NoCallback == 0
NoTrack == [chapterIndex |-> -1, text |-> ""]
NoBytes == [voice |-> "", text |-> ""]
NoBuffer == [bytes |-> NoBytes, duration |-> 0]
NoError == ""

SynthesisErrorMessage == "Nao foi possivel gerar o audio para este capitulo."
LoadErrorMessage == "Erro ao carregar audio."

VARIABLES
    nextState,              \* the state the queued setAudioState updaters have produced
    audioState,             \* the state of the last committed render (closures read it)
    audioStateRef,          \* audioStateRef.current
    nextConfig,             \* the config the queued setAudioConfig updaters have produced
    audioConfig,            \* the config of the last committed render
    audioContextRef,        \* "null" | "running" | "closed"
    ctxTime,                \* audioContextRef.current.currentTime
    audioSourceRef,         \* id of the node held, or NoNode
    nodes,                  \* the output nodes started and not torn down, by id
    audioBufferRef,         \* the decoded buffer, or NoBuffer
    playbackStartedAtRef,
    playbackPausedAtRef,
    animationFrameRef,      \* TRUE while a frame callback is scheduled
    generationIdRef,
    onEndedCallbackRef,     \* the callback held (named by the call that supplied it)
    requests,               \* the loadAndPlay calls whose async work is pending
    cache,                  \* the audioClips store: key -> bytes
    pendingWrites,          \* storeAudio calls not yet settled
    endedCalls,             \* invocations so far of the callback held in onEndedCallbackRef
    halted,                 \* "stopped" or "paused": the current track was stopped or
                            \* paused and not resumed since; "no" otherwise
    seekedWhilePaused,      \* TRUE when the last call into the player was a seekTo
                            \* made while paused with a buffer loaded
    gainNodeRef,            \* id of the gain node held, or NoNode
    gainValue,              \* the value last set on the gain node's gain
    detachedEnded,          \* "pending" while the ended event of some node that stop
                            \* tore down is still to be delivered, "delivered" once
                            \* it has been and no other is pending, "none" before
    paragraphApp,           \* the application that reads a chapter paragraph by
                            \* paragraph, with the player it uses
    chapterApp,             \* the application that reads chapter after chapter, with
                            \* the player as it sees it
    savedConfig,            \* the audio config item localStorage held at startup
    server,                 \* one instance of the API functions: its rate-limit
                            \* store, its clock and the status it last answered
    mounted,                \* FALSE once the component using the hook is unmounted
    togglePlayer            \* the toggle-based hook (src/hooks/useAudioPlayer.ts,
                            \* toggleAudio) with its pending calls and timers

vars == <<nextState, audioState, audioStateRef, nextConfig, audioConfig, audioContextRef,
          ctxTime, audioSourceRef, nodes, audioBufferRef, playbackStartedAtRef,
          playbackPausedAtRef, animationFrameRef, generationIdRef, onEndedCallbackRef,
          requests, cache, pendingWrites, endedCalls, halted, seekedWhilePaused,
          gainNodeRef, gainValue, detachedEnded, paragraphApp, chapterApp,
          savedConfig, server, mounted, togglePlayer>>

appVars == <<paragraphApp, chapterApp, savedConfig, server, mounted, togglePlayer>>

outputVars == <<gainNodeRef, gainValue, detachedEnded>>

\* ------------------------------------------------------- pure helpers
\* mutant: the key is built with the text first
CacheKeySwapped(voice, text) == text \o "::" \o voice

CacheKey(voice, text) == voice \o "::" \o text

\* text.trim(), on the texts of the model
Trim(text) == IF text = " " THEN "" ELSE text

\* mutant: no text counts as blank
IsBlankNever(text) == FALSE

\* !text || text.trim().length === 0
IsBlank(text) == text = "" \/ Trim(text) = ""

Synthesize(text, voice) == [voice |-> voice, text |-> text]

DecodeAudioData(bytes) == [bytes |-> bytes, duration |-> TextDuration(bytes.text)]

Min(a, b) == IF a < b THEN a ELSE b

\* mutant: the elapsed time is subtracted
PositionBackwards(offset, startedAt, now, speed) == offset - (now - startedAt) * speed

\* The playback clock: offset at start plus elapsed device time times speed.
Position(offset, startedAt, now, speed) == offset + (now - startedAt) * speed

InitialAudioState(speed) ==
    [status |-> "idle", trackInfo |-> NoTrack, currentTime |-> 0, duration |-> 0,
     volume |-> 1, isMuted |-> FALSE, speed |-> speed, errorMessage |-> NoError]

\* The mutable cells the transport operations work on, as one record.
H == [nextState |-> nextState, audioContextRef |-> audioContextRef,
      audioSourceRef |-> audioSourceRef, nodes |-> nodes,
      audioBufferRef |-> audioBufferRef,
      playbackStartedAtRef |-> playbackStartedAtRef,
      playbackPausedAtRef |-> playbackPausedAtRef,
      animationFrameRef |-> animationFrameRef, endedCalls |-> endedCalls,
      gainNodeRef |-> gainNodeRef, gainValue |-> gainValue,
      detachedEnded |-> detachedEnded]

Assign(h) ==
    /\ nextState' = h.nextState
    /\ audioContextRef' = h.audioContextRef
    /\ audioSourceRef' = h.audioSourceRef
    /\ nodes' = h.nodes
    /\ audioBufferRef' = h.audioBufferRef
    /\ playbackStartedAtRef' = h.playbackStartedAtRef
    /\ playbackPausedAtRef' = h.playbackPausedAtRef
    /\ animationFrameRef' = h.animationFrameRef
    /\ endedCalls' = h.endedCalls
    /\ gainNodeRef' = h.gainNodeRef
    /\ gainValue' = h.gainValue
    /\ detachedEnded' = h.detachedEnded

\* The commit that ends a handler of a discrete user event: the queued state is
\* rendered and the effects (the audioStateRef sync) have run.
AssignCommitted(h) ==
    /\ Assign(h)
    /\ audioState' = h.nextState
    /\ audioStateRef' = h.nextState

Without(f, k) == [x \in DOMAIN f \ {k} |-> f[x]]

\* an identity for the node createBufferSource() returns: the least one not in use
FreshNode(h) ==
    CHOOSE n \in 1..(Cardinality(DOMAIN h.nodes) + 1) : n \notin DOMAIN h.nodes

\* ------------------------------------------------------- stop / play
\* mutant: a full reset leaves the decoded buffer in place
stopKeepingBuffer(h, resetFullState) ==
    LET h1 == [h EXCEPT !.animationFrameRef = FALSE]
        h2 == IF h1.audioSourceRef # NoNode
              THEN [h1 EXCEPT !.nodes = Without(h1.nodes, h1.audioSourceRef),
                              !.audioSourceRef = NoNode,
                              !.detachedEnded =
                                  IF h1.nodes[h1.audioSourceRef].fired THEN @
                                  ELSE "pending"]
              ELSE h1
    IN  IF resetFullState
        THEN [h2 EXCEPT !.nextState = [h2.nextState EXCEPT !.status = "idle",
                                          !.trackInfo = NoTrack,
                                          !.currentTime = 0,
                                          !.duration = 0],
                        !.playbackPausedAtRef = 0]
        ELSE h2

\* mutant: the node is left running and audioSourceRef keeps pointing at it
stopWithoutTeardown(h, resetFullState) ==
    LET h2 == [h EXCEPT !.animationFrameRef = FALSE]
    IN  IF resetFullState
        THEN [h2 EXCEPT !.nextState = [h2.nextState EXCEPT !.status = "idle",
                                          !.trackInfo = NoTrack,
                                          !.currentTime = 0,
                                          !.duration = 0],
                        !.audioBufferRef = NoBuffer,
                        !.playbackPausedAtRef = 0]
        ELSE h2

stop(h, resetFullState) ==
    LET h1 == [h EXCEPT !.animationFrameRef = FALSE]
        h2 == IF h1.audioSourceRef # NoNode
              THEN [h1 EXCEPT !.nodes = Without(h1.nodes, h1.audioSourceRef),
                              !.audioSourceRef = NoNode,
                              !.detachedEnded =
                                  IF h1.nodes[h1.audioSourceRef].fired THEN @
                                  ELSE "pending"]
              ELSE h1
    IN  IF resetFullState
        THEN [h2 EXCEPT !.nextState = [h2.nextState EXCEPT !.status = "idle",
                                          !.trackInfo = NoTrack,
                                          !.currentTime = 0,
                                          !.duration = 0],
                        !.audioBufferRef = NoBuffer,
                        !.playbackPausedAtRef = 0]
        ELSE h2

\* gainNodeRef when the node it holds belongs to a context that was closed
ClosedGain == -1

\* mutant: every play call builds a new gain node
ensureOutputAnew(h) ==
    [h EXCEPT !.audioContextRef = "running", !.gainNodeRef = @ + 1]

\* The first lines of play: the context and the gain node are created when none is
\* held.
ensureOutput(h) ==
    [h EXCEPT !.audioContextRef = "running",
              !.gainNodeRef = IF @ = NoNode \/ @ = ClosedGain THEN 1 ELSE @]

\* The second half of play: the source node is created on the buffer and the gain
\* set, then the node is started.
\* source.start(0, startTime) throws a RangeError for a negative offset and clamps an
\* offset past the end of the buffer to its end.
startSource(h, startTime, origin) ==
    LET n  == FreshNode(h)
        source == [duration |-> h.audioBufferRef.duration,
                   pos |-> Min(startTime, h.audioBufferRef.duration),
                   rate |-> audioStateRef.speed,
                   fired |-> FALSE,
                   offset |-> startTime,
                   startAt |-> ctxTime,
                   constSpeed |-> /\ audioStateRef.speed = h.nextState.speed
                                  /\ audioStateRef.speed = nextConfig.speed
                                  /\ audioStateRef.speed = audioConfig.speed,
                   seeked |-> FALSE,
                   origin |-> origin]
        gain == IF audioStateRef.isMuted THEN 0 ELSE audioStateRef.volume
    IN  IF startTime < 0 THEN [h EXCEPT !.gainValue = gain]
        ELSE [h EXCEPT !.gainValue = gain,
                       !.nodes = (n :> source) @@ h.nodes,
                       !.playbackStartedAtRef = ctxTime,
                       !.playbackPausedAtRef = startTime,
                       !.audioSourceRef = n,
                       !.nextState = [h.nextState EXCEPT !.status = "playing"],
                       !.animationFrameRef = TRUE]

\* mutant: the node playing is not stopped before the new one is started
playWithoutStop(h, startTime, origin) ==
    IF h.audioBufferRef = NoBuffer THEN h
    ELSE startSource(ensureOutput(h), startTime, origin)

play(h, startTime, origin) ==
    IF h.audioBufferRef = NoBuffer THEN h
    ELSE startSource(stop(ensureOutput(h), FALSE), startTime, origin)

\* onEndedCallbackRef.current(), when one is held
InvokeOnEnded(h) ==
    IF onEndedCallbackRef # NoCallback
    THEN [h EXCEPT !.endedCalls = @ + 1]
    ELSE h

\* ------------------------------------------------ persisted config
\* A JSON value as a field of the stored item: its typeof and, for a string or a
\* number, the value.
Undefined == [type |-> "undefined", string |-> "", number |-> 0]

String(value) == [type |-> "string", string |-> value, number |-> 0]

Number(value) == [type |-> "number", string |-> "", number |-> value]

\* What localStorage can hold under the config key: nothing ("absent"), text that
\* JSON.parse rejects ("unparsable"), the JSON null, or an object whose voice and
\* speed are a string, a number or missing.
StoredVoices == {String(v) : v \in AVAILABLE_VOICES \cup {"Bob"}} \cup {Number(7), Undefined}

StoredSpeeds == {Number(n) : n \in Speeds} \cup {String("fast"), Undefined}

StoredConfigs ==
    {[kind |-> "object", voice |-> v, speed |-> sp] : v \in StoredVoices,
                                                     sp \in StoredSpeeds}
      \cup {[kind |-> k, voice |-> Undefined, speed |-> Undefined] :
                k \in {"absent", "unparsable", "null"}}

DefaultConfig == [voice |-> "Kore", speed |-> 1]

\* a config the player holds, as the object JSON.stringify stored
Saved(config) ==
    [kind |-> "object", voice |-> String(config.voice), speed |-> Number(config.speed)]

\* a config as an object with typed fields
Field(config) == [voice |-> String(config.voice), speed |-> Number(config.speed)]

NoConfig == [voice |-> Undefined, speed |-> Undefined]

\* the useState initializer of audioConfig in useAudioPlayer
playerAudioConfig(saved) ==
    IF /\ saved.kind = "object"
       /\ saved.voice.type = "string"
       /\ saved.speed.type = "number"
    THEN [voice |-> saved.voice, speed |-> saved.speed]
    ELSE Field(DefaultConfig)

\* the useState initializer of audioConfig in the App of src/unnamed/part_001
appAudioConfig(saved) ==
    IF /\ saved.kind = "object"
       /\ saved.voice.type = "string"
       /\ saved.voice.string \in AVAILABLE_VOICES
    THEN [voice |-> saved.voice, speed |-> saved.speed]
    ELSE Field(DefaultConfig)

\* ------------------------------------------- paragraph by paragraph
\* The application of src/unnamed/part_001 with the player of
\* src/hooks/useAudioPlayer.ts (lines 1-229), held in paragraphApp.  Playback speed
\* is 1 throughout.  A closure is the rendered state the handlers, and the play
\* function, of one render see.
NoClosure == [status |-> "none", currentTime |-> 0, duration |-> 0,
              currentParagraphIndex |-> -1]

NoSource == [pos |-> 0, duration |-> 0, closure |-> NoClosure]

IdleAudio == [status |-> "idle", currentTime |-> 0, duration |-> 0]

InitialParagraphApp ==
    [audioState |-> IdleAudio, nextState |-> IdleAudio,
     currentParagraphIndex |-> 0, nextParagraphIndex |-> 0,
     chapterPlaybackState |-> "idle", nextChapterPlaybackState |-> "idle",
     generationIdRef |-> 0, onEndedCallbackRef |-> NoClosure,
     audioContextRef |-> "null", ctxTime |-> 0,
     audioBufferRef |-> 0, audioSourceRef |-> NoSource,
     playbackStartedAtRef |-> 0, playbackPausedAtRef |-> 0,
     animationFrame |-> NoClosure, requests |-> {},
     audioConfig |-> Field(DefaultConfig),
     played |-> <<>>, toggles |-> 0, failed |-> FALSE]

\* ---------------------------------------------- chapter after chapter
\* The application of src/types.ts (lines 303 onwards) with the player as the
\* application sees it (a call loads, then plays, then ends), held in chapterApp.
NoChapterTrack == [chapterIndex |-> -1, summary |-> FALSE]

NoChapterCallback == [isPlayingSummary |-> FALSE, selectedChapterIndex |-> -1]

IdleChapterAudio == [status |-> "idle", trackInfo |-> NoChapterTrack]

InitialChapterApp ==
    [audioState |-> IdleChapterAudio, nextState |-> IdleChapterAudio,
     selectedChapterIndex |-> 0, nextSelectedChapterIndex |-> 0,
     autoPlayOnChapterChangeRef |-> FALSE,
     generationIdRef |-> 0, onEndedCallbackRef |-> NoChapterCallback,
     requests |-> {}, calls |-> <<>>, clicks |-> 0, ends |-> 0]

\* ------------------------------------------------ the API's rate limiter
RATE_LIMITS ==
    [endpoint \in {"generate-plan", "generate-summary", "generate-speech"} |->
        [max |-> CASE endpoint = "generate-plan" -> 10
                   [] endpoint = "generate-summary" -> 30
                   [] endpoint = "generate-speech" -> 100,
         windowMs |-> 60 * 60 * 1000]]

RateLimitKey == DOMAIN RATE_LIMITS

\* `${ip}:${endpoint}`: no endpoint name holds a colon, so the pair is the key
StoreKey(ip, endpoint) == <<ip, endpoint>>

\* rateLimitStore.get(key) of a key the store does not hold
NoEntry == [count |-> 0, resetAt |-> 0]

\* no request made to a key yet
NoWindow == [allowed |-> 0, resetAt |-> 0]

\* no 429 answered last
NoInfo == [limit |-> 0, remaining |-> 0, resetAt |-> 0]

\* the instance after a cold start: an empty store, no request answered
InitialServer ==
    [rateLimitStore |-> [key \in ClientIps \X RateLimitKey |-> NoEntry],
     now |-> 0,
     status |-> 0,
     info |-> NoInfo,
     window |-> [key \in ClientIps \X RateLimitKey |-> NoWindow]]

cleanExpiredEntries(store, now) ==
    [key \in DOMAIN store |->
        IF store[key] # NoEntry /\ now > store[key].resetAt THEN NoEntry ELSE store[key]]

\* a variant of checkRateLimit that compares the count before incrementing it
checkRateLimitBeforeIncrement(store, now, ip, endpoint, clean) ==
    LET config == RATE_LIMITS[endpoint]
        key == StoreKey(ip, endpoint)
        cleaned == IF clean THEN cleanExpiredEntries(store, now) ELSE store
        entry == cleaned[key]
    IN  IF entry = NoEntry \/ now > entry.resetAt
        THEN [store |-> [cleaned EXCEPT ![key] =
                            [count |-> 1, resetAt |-> now + config.windowMs]],
              allowed |-> TRUE]
        ELSE [store |-> [cleaned EXCEPT ![key].count = @ + 1],
              allowed |-> ~(entry.count > config.max)]

\* clean: the draw Math.random() < 0.1 came out true
checkRateLimit(store, now, ip, endpoint, clean) ==
    LET config == RATE_LIMITS[endpoint]
        key == StoreKey(ip, endpoint)
        cleaned == IF clean THEN cleanExpiredEntries(store, now) ELSE store
        entry == cleaned[key]
    IN  IF entry = NoEntry \/ now > entry.resetAt
        THEN [store |-> [cleaned EXCEPT ![key] =
                            [count |-> 1, resetAt |-> now + config.windowMs]],
              allowed |-> TRUE]
        ELSE [store |-> [cleaned EXCEPT ![key].count = @ + 1],
              allowed |-> ~(entry.count + 1 > config.max)]

getRateLimitInfo(store, now, ip, endpoint) ==
    LET key == StoreKey(ip, endpoint)
        entry == store[key]
        config == RATE_LIMITS[endpoint]
    IN  IF entry = NoEntry \/ now > entry.resetAt
        THEN [limit |-> config.max, remaining |-> config.max,
              resetAt |-> now + config.windowMs]
        ELSE [limit |-> config.max,
              remaining |-> IF config.max - entry.count > 0
                            THEN config.max - entry.count ELSE 0,
              resetAt |-> entry.resetAt]

\* ------------------------------------------------ the toggle-based hook
\* chapterIndex: null, paragraphIndex: null
NullIndex == -1

ToggleIdle ==
    [status |-> "idle", chapterIndex |-> NullIndex, paragraphIndex |-> NullIndex,
     errorMessage |-> ""]

\* audioSourceRef.current === null, and animationFrameRef.current === null
NoToggleSource == [startTime |-> -1, startedAt |-> 0, chapterIndex |-> NullIndex,
                   paragraphIndex |-> NullIndex, duration |-> 0]
NoToggleFrame == -1

\* The hook after its first render.  nextState is the state the setAudioState calls
\* have produced, audioState the one of the last render (toggleAudio closes over
\* it); animationFrameRef holds the startTime the scheduled updateProgress closes
\* over; timers counts the setTimeout callbacks not yet fired.
InitialTogglePlayer ==
    [nextState |-> ToggleIdle, audioState |-> ToggleIdle,
     playbackProgress |-> 0,
     audioContextRef |-> "null", ctxTime |-> 0,
     audioSourceRef |-> NoToggleSource,
     audioBufferRef |-> 0,
     playbackProgressRef |-> 0, playbackStartTimeRef |-> 0,
     animationFrameRef |-> NoToggleFrame,
     speed |-> 1,
     requests |-> {}, timers |-> 0, calls |-> 0]

\* ------------------------------------------------------------- Init
Init ==
    /\ nextConfig \in Configs
    /\ audioConfig = nextConfig
    /\ nextState = InitialAudioState(nextConfig.speed)
    /\ audioState = nextState
    /\ audioStateRef = nextState
    /\ audioContextRef = "null"
    /\ ctxTime = 0
    /\ audioSourceRef = NoNode
    /\ nodes = <<>>
    /\ audioBufferRef = NoBuffer
    /\ playbackStartedAtRef = 0
    /\ playbackPausedAtRef = 0
    /\ animationFrameRef = FALSE
    /\ generationIdRef = 0
    /\ onEndedCallbackRef = NoCallback
    /\ requests = {}
    /\ cache \in InitialCaches
    /\ pendingWrites = {}
    /\ endedCalls = 0
    /\ halted = "no"
    /\ seekedWhilePaused = FALSE
    /\ gainNodeRef = NoNode
    /\ gainValue = 1
    /\ detachedEnded = "none"
    /\ paragraphApp = InitialParagraphApp
    /\ savedConfig = Saved(nextConfig)
    /\ chapterApp = InitialChapterApp
    /\ server = InitialServer
    /\ mounted = TRUE
    /\ togglePlayer = InitialTogglePlayer

\* ------------------------------------------------------ loadAndPlay
\* mutant: the generation check is dropped
IsCurrentAlways(r) == TRUE

IsCurrent(r) == r.gen = generationIdRef

RenderPending ==
    \/ nextState # audioState
    \/ nextConfig # audioConfig
    \/ audioStateRef # audioState

\* mutant: the call does not queue the loading status
loadAndPlayWithoutLoading(track) ==
    /\ LET currentGenerationId == generationIdRef + 1
           h1 == stop(H, TRUE)
           h2 == [h1 EXCEPT !.nextState = [h1.nextState EXCEPT !.trackInfo = track],
                            !.endedCalls = 0]
       IN  /\ onEndedCallbackRef' = currentGenerationId
           /\ generationIdRef' = currentGenerationId
           /\ Assign(h2)
           /\ requests' = requests \cup
                  {[gen |-> currentGenerationId, text |-> track.text,
                    voice |-> audioConfig.voice, pc |-> "getAudio",
                    bytes |-> NoBytes, hit |-> FALSE, sent |-> FALSE]}
    /\ halted' = "no"
    /\ seekedWhilePaused' = FALSE
    /\ UNCHANGED appVars
    /\ UNCHANGED <<audioState, audioStateRef, nextConfig, audioConfig, ctxTime,
                   cache, pendingWrites>>

\* loadAndPlay, up to its first await (the cache lookup is started)
loadAndPlay(track) ==
    /\ LET currentGenerationId == generationIdRef + 1
           h1 == stop(H, TRUE)
           h2 == [h1 EXCEPT !.nextState = [h1.nextState EXCEPT !.status = "loading",
                                                               !.trackInfo = track],
                            !.endedCalls = 0]
       IN  /\ onEndedCallbackRef' = currentGenerationId
           /\ generationIdRef' = currentGenerationId
           /\ Assign(h2)
           /\ requests' = requests \cup
                  {[gen |-> currentGenerationId, text |-> track.text,
                    voice |-> audioConfig.voice, pc |-> "getAudio",
                    bytes |-> NoBytes, hit |-> FALSE, sent |-> FALSE]}
    /\ halted' = "no"
    /\ seekedWhilePaused' = FALSE
    /\ UNCHANGED appVars
    /\ UNCHANGED <<audioState, audioStateRef, nextConfig, audioConfig, ctxTime,
                   cache, pendingWrites>>

\* a loadAndPlay call by the application, at any moment
LoadAndPlay(track) ==
    /\ generationIdRef < MaxGen
    /\ loadAndPlay(track)

\* a loadAndPlay call issued while no earlier call's async work has resolved
BurstLoadAndPlay(track) ==
    /\ generationIdRef < MaxBurst
    /\ Cardinality(requests) = generationIdRef
    /\ \A r \in requests : r.pc = "getAudio"
    /\ loadAndPlay(track)

\* mutant: the catch block does not look at the generation
CatchUnchecked(r, message) ==
    /\ nextState' = [nextState EXCEPT !.status = "error", !.errorMessage = message]
    /\ requests' = requests \ {r}
    /\ UNCHANGED appVars
    /\ UNCHANGED outputVars
    /\ UNCHANGED <<audioState, audioStateRef, nextConfig, audioConfig, audioContextRef,
                   ctxTime, audioSourceRef, nodes, audioBufferRef, playbackStartedAtRef,
                   playbackPausedAtRef, animationFrameRef, generationIdRef,
                   onEndedCallbackRef, cache, pendingWrites, endedCalls, halted,
                   seekedWhilePaused>>

\* the catch block of loadAndPlay
Catch(r, message) ==
    /\ nextState' = IF IsCurrent(r)
                    THEN [nextState EXCEPT !.status = "error", !.errorMessage = message]
                    ELSE nextState
    /\ requests' = requests \ {r}
    /\ UNCHANGED appVars
    /\ UNCHANGED outputVars
    /\ UNCHANGED <<audioState, audioStateRef, nextConfig, audioConfig, audioContextRef,
                   ctxTime, audioSourceRef, nodes, audioBufferRef, playbackStartedAtRef,
                   playbackPausedAtRef, animationFrameRef, generationIdRef,
                   onEndedCallbackRef, cache, pendingWrites, endedCalls, halted,
                   seekedWhilePaused>>

\* await getAudio(cacheKey) resolves: on a hit the decode is started, on a miss
\* generateSpeech is called, which sends the text to the speech model unless the
\* text is blank (sent records that the request went out)
GetAudioResolve(r) ==
    /\ r \in requests
    /\ ~RenderPending
    /\ r.pc = "getAudio"
    /\ LET cacheKey == CacheKey(r.voice, r.text)
           base64Audio == IF cacheKey \in DOMAIN cache THEN cache[cacheKey] ELSE NoBytes
       IN  IF base64Audio = NoBytes
           THEN /\ requests' = (requests \ {r}) \cup
                       {[r EXCEPT !.pc = "generateSpeech", !.sent = ~IsBlank(r.text)]}
                /\ UNCHANGED audioContextRef
           ELSE /\ requests' = (requests \ {r}) \cup
                       {[r EXCEPT !.pc = "decodeAudioData", !.bytes = base64Audio,
                                  !.hit = TRUE]}
                /\ audioContextRef' = "running"
    /\ UNCHANGED appVars
    /\ UNCHANGED outputVars
    /\ UNCHANGED <<nextState, audioState, audioStateRef, nextConfig, audioConfig, ctxTime,
                   audioSourceRef, nodes, audioBufferRef, playbackStartedAtRef,
                   playbackPausedAtRef, animationFrameRef, generationIdRef,
                   onEndedCallbackRef, cache, pendingWrites, endedCalls, halted,
                   seekedWhilePaused>>

\* await getAudio(cacheKey) rejects (the store cannot be opened or read)
GetAudioReject(r) ==
    /\ r \in requests
    /\ ~RenderPending
    /\ r.pc = "getAudio"
    /\ Catch(r, LoadErrorMessage)

\* await generateSpeech(...) resolves: the model answered the request sent to it
GenerateSpeechResolve(r) ==
    /\ r \in requests
    /\ ~RenderPending
    /\ r.pc = "generateSpeech"
    /\ r.sent
    /\ LET base64Audio == Synthesize(r.text, r.voice)
       IN  IF ~IsCurrent(r)
           THEN /\ requests' = requests \ {r}
                /\ UNCHANGED <<pendingWrites, audioContextRef>>
           ELSE /\ pendingWrites' = pendingWrites \cup
                       {[key |-> CacheKey(r.voice, r.text), bytes |-> base64Audio]}
                /\ audioContextRef' = "running"
                /\ requests' = (requests \ {r}) \cup
                       {[r EXCEPT !.pc = "decodeAudioData", !.bytes = base64Audio]}
    /\ UNCHANGED appVars
    /\ UNCHANGED outputVars
    /\ UNCHANGED <<nextState, audioState, audioStateRef, nextConfig, audioConfig, ctxTime,
                   audioSourceRef, nodes, audioBufferRef, playbackStartedAtRef,
                   playbackPausedAtRef, animationFrameRef, generationIdRef,
                   onEndedCallbackRef, cache, endedCalls, halted,
                   seekedWhilePaused>>

\* await generateSpeech(...) rejects: the blank text was refused, the call to the
\* model failed or its response held no audio
GenerateSpeechReject(r) ==
    /\ r \in requests
    /\ ~RenderPending
    /\ r.pc = "generateSpeech"
    /\ Catch(r, SynthesisErrorMessage)

\* await decodeAudioData(...) resolves
DecodeResolve(r) ==
    /\ r \in requests
    /\ ~RenderPending
    /\ r.pc = "decodeAudioData"
    /\ requests' = requests \ {r}
    /\ IF ~IsCurrent(r)
       THEN UNCHANGED <<nextState, audioContextRef, audioSourceRef, nodes, audioBufferRef,
                        playbackStartedAtRef, playbackPausedAtRef, animationFrameRef,
                        endedCalls, gainNodeRef, gainValue, detachedEnded>>
       ELSE LET buffer == DecodeAudioData(r.bytes)
                h1 == [H EXCEPT !.audioBufferRef = buffer,
                                !.nextState = [H.nextState EXCEPT
                                                  !.duration = buffer.duration]]
            IN  Assign(play(h1, 0, "load"))
    /\ UNCHANGED appVars
    /\ UNCHANGED <<audioState, audioStateRef, nextConfig, audioConfig, ctxTime,
                   generationIdRef, onEndedCallbackRef, cache, pendingWrites, halted,
                   seekedWhilePaused>>

\* await decodeAudioData(...) rejects
DecodeReject(r) ==
    /\ r \in requests
    /\ ~RenderPending
    /\ r.pc = "decodeAudioData"
    /\ Catch(r, LoadErrorMessage)

\* storeAudio(cacheKey, base64Audio) settles: the put succeeds, or fails and is logged
StoreAudioResolve(w) ==
    /\ w \in pendingWrites
    /\ pendingWrites' = pendingWrites \ {w}
    /\ cache' = (w.key :> w.bytes) @@ cache
    /\ UNCHANGED appVars
    /\ UNCHANGED outputVars
    /\ UNCHANGED <<nextState, audioState, audioStateRef, nextConfig, audioConfig,
                   audioContextRef, ctxTime, audioSourceRef, nodes, audioBufferRef,
                   playbackStartedAtRef, playbackPausedAtRef, animationFrameRef,
                   generationIdRef, onEndedCallbackRef, requests, endedCalls, halted,
                   seekedWhilePaused>>

StoreAudioReject(w) ==
    /\ w \in pendingWrites
    /\ pendingWrites' = pendingWrites \ {w}
    /\ UNCHANGED appVars
    /\ UNCHANGED outputVars
    /\ UNCHANGED <<nextState, audioState, audioStateRef, nextConfig, audioConfig,
                   audioContextRef, ctxTime, audioSourceRef, nodes, audioBufferRef,
                   playbackStartedAtRef, playbackPausedAtRef, animationFrameRef,
                   generationIdRef, onEndedCallbackRef, requests, cache, endedCalls,
                   halted,
                   seekedWhilePaused>>

\* ------------------------------------------------- React commit, clock
\* A render commits the queued state; its effects store it in audioStateRef and, when
\* audioConfig.speed changed, queue the new speed into the state.
Render ==
    /\ RenderPending
    /\ audioState' = nextState
    /\ audioStateRef' = nextState
    /\ audioConfig' = nextConfig
    /\ nextState' = IF nextConfig.speed # audioConfig.speed
                    THEN [nextState EXCEPT !.speed = nextConfig.speed]
                    ELSE nextState
    /\ UNCHANGED appVars
    /\ UNCHANGED outputVars
    /\ UNCHANGED <<nextConfig, audioContextRef, ctxTime, audioSourceRef, nodes,
                   audioBufferRef, playbackStartedAtRef, playbackPausedAtRef,
                   animationFrameRef, generationIdRef, onEndedCallbackRef, requests,
                   cache, pendingWrites, endedCalls, halted,
                   seekedWhilePaused>>

\* The device clock advances by one tick; every started node emits rate ticks of
\* its buffer, up to the end of the buffer.
Tick ==
    /\ audioContextRef = "running"
    /\ ctxTime < MaxTime
    /\ ~RenderPending
    /\ ctxTime' = ctxTime + 1
    /\ nodes' = [n \in DOMAIN nodes |->
                    [nodes[n] EXCEPT !.pos = Min(nodes[n].duration, @ + nodes[n].rate)]]
    /\ UNCHANGED appVars
    /\ UNCHANGED outputVars
    /\ UNCHANGED <<nextState, audioState, audioStateRef, nextConfig, audioConfig,
                   audioContextRef, audioSourceRef, audioBufferRef, playbackStartedAtRef,
                   playbackPausedAtRef, animationFrameRef, generationIdRef,
                   onEndedCallbackRef, requests, cache, pendingWrites, endedCalls,
                   halted,
                   seekedWhilePaused>>

\* ------------------------------------------------- end-of-stream detectors
\* updateProgressRef.current, run as the scheduled frame callback
UpdateProgress ==
    /\ animationFrameRef
    /\ LET state == audioStateRef
           h0 == [H EXCEPT !.animationFrameRef = FALSE]
       IN  IF state.status # "playing" \/ audioContextRef = "null"
              \/ audioBufferRef = NoBuffer
           THEN Assign(h0)
           ELSE LET newCurrentTime == Position(playbackPausedAtRef, playbackStartedAtRef,
                                               ctxTime, state.speed)
                    duration == audioBufferRef.duration
                IN  IF duration > 0 /\ newCurrentTime >= duration
                    THEN Assign(InvokeOnEnded(stop(
                             [h0 EXCEPT !.nextState.currentTime = duration], TRUE)))
                    ELSE Assign([h0 EXCEPT !.nextState.currentTime = newCurrentTime,
                                           !.animationFrameRef = TRUE])
    /\ UNCHANGED appVars
    /\ UNCHANGED <<audioState, audioStateRef, nextConfig, audioConfig, ctxTime,
                   generationIdRef, onEndedCallbackRef, requests, cache, pendingWrites,
                   halted,
                   seekedWhilePaused>>

\* The ended event of node n, delivered once after the node has emitted its whole
\* buffer.  Only the node held in audioSourceRef still has its handler.
SourceOnEnded(n) ==
    /\ n \in DOMAIN nodes
    /\ nodes[n].pos >= nodes[n].duration
    /\ ~nodes[n].fired
    /\ LET h0 == [H EXCEPT !.nodes[n].fired = TRUE]
       IN  IF audioSourceRef = n /\ audioStateRef.status = "playing"
           THEN Assign(InvokeOnEnded(stop(h0, TRUE)))
           ELSE Assign(h0)
    /\ UNCHANGED appVars
    /\ UNCHANGED <<audioState, audioStateRef, nextConfig, audioConfig, ctxTime,
                   generationIdRef, onEndedCallbackRef, requests, cache, pendingWrites,
                   halted,
                   seekedWhilePaused>>

\* mutant: the handler of a node torn down still runs and does not look at
\* audioSourceRef
detachedOnEndedLive(h) ==
    IF audioStateRef.status = "playing" THEN InvokeOnEnded(stop(h, TRUE)) ELSE h

\* What the ended event of a node torn down by stop runs: stop has set the node's
\* onended to null, and the handler it had tested audioSourceRef.current === source.
detachedOnEnded(h) == h

\* The ended event of a node that stop tore down before the event was delivered.
DetachedOnEnded ==
    /\ detachedEnded = "pending"
    /\ Assign(detachedOnEnded([H EXCEPT !.detachedEnded = "delivered"]))
    /\ UNCHANGED appVars
    /\ UNCHANGED <<audioState, audioStateRef, nextConfig, audioConfig, ctxTime,
                   generationIdRef, onEndedCallbackRef, requests, cache, pendingWrites,
                   halted, seekedWhilePaused>>

\* ------------------------------------------------- transport controls
\* mutant: the elapsed time is not added to the resume offset
pauseKeepingOffset(h) ==
    IF h.audioContextRef = "null" \/ audioState.status # "playing" THEN h
    ELSE [stop(h, FALSE) EXCEPT !.nextState.status = "paused"]

pause(h) ==
    IF h.audioContextRef = "null" \/ audioState.status # "playing" THEN h
    ELSE LET elapsed == ctxTime - h.playbackStartedAtRef
             h1 == [h EXCEPT !.playbackPausedAtRef = @ + elapsed * audioStateRef.speed]
             h2 == stop(h1, FALSE)
         IN  [h2 EXCEPT !.nextState.status = "paused"]

PlayPause ==
    /\ nextConfig = audioConfig
    /\ IF audioState.status = "playing"
       THEN /\ AssignCommitted(pause(H))
            /\ halted' = IF audioContextRef # "null" /\ audioSourceRef # NoNode
                         THEN "paused" ELSE halted
       ELSE IF audioState.status = "paused"
       THEN /\ AssignCommitted(play(H, playbackPausedAtRef, "resume"))
            /\ halted' = IF audioBufferRef # NoBuffer /\ playbackPausedAtRef >= 0
                         THEN "no" ELSE halted
       ELSE /\ AssignCommitted(H)
            /\ UNCHANGED halted
    /\ seekedWhilePaused' = FALSE
    /\ UNCHANGED appVars
    /\ UNCHANGED <<nextConfig, audioConfig, ctxTime, generationIdRef, onEndedCallbackRef,
                   requests, cache, pendingWrites>>

\* mutant: the seek restarts playback whatever the status
seekToRestarting(h, time) ==
    IF h.audioBufferRef = NoBuffer THEN h
    ELSE play([h EXCEPT !.playbackPausedAtRef = time,
                        !.nextState.currentTime = time], time, "seek")

seekTo(h, time) ==
    IF h.audioBufferRef = NoBuffer THEN h
    ELSE LET wasPlaying == audioState.status = "playing"
             h1 == [h EXCEPT !.playbackPausedAtRef = time,
                             !.nextState.currentTime = time]
             h2 == IF h.audioSourceRef # NoNode
                   THEN [h1 EXCEPT !.nodes[h.audioSourceRef].seeked = TRUE]
                   ELSE h1
         IN  IF wasPlaying THEN play(h1, time, "seek") ELSE h2

SeekTo(time) ==
    /\ nextConfig = audioConfig
    /\ AssignCommitted(seekTo(H, time))
    /\ seekedWhilePaused' = /\ audioBufferRef # NoBuffer
                            /\ audioState.status = "paused"
                            /\ nextState.status = "paused"
    /\ UNCHANGED appVars
    /\ UNCHANGED <<nextConfig, audioConfig, ctxTime, generationIdRef, onEndedCallbackRef,
                   requests, cache, pendingWrites, halted>>

\* stopAudio(), the exported stop with its default resetFullState = true
StopAudio ==
    /\ Assign(stop(H, TRUE))
    /\ halted' = IF nextState.trackInfo # NoTrack THEN "stopped" ELSE halted
    /\ seekedWhilePaused' = FALSE
    /\ UNCHANGED appVars
    /\ UNCHANGED <<audioState, audioStateRef, nextConfig, audioConfig, ctxTime,
                   generationIdRef, onEndedCallbackRef, requests, cache, pendingWrites>>

HandleSpeedChange(newSpeed) ==
    /\ nextConfig' = [nextConfig EXCEPT !.speed = newSpeed]
    /\ nodes' = IF audioSourceRef # NoNode
                THEN [nodes EXCEPT ![audioSourceRef].rate = newSpeed,
                                   ![audioSourceRef].constSpeed =
                                        @ /\ newSpeed = nodes[audioSourceRef].rate]
                ELSE nodes
    /\ UNCHANGED appVars
    /\ UNCHANGED outputVars
    /\ UNCHANGED <<nextState, audioState, audioStateRef, audioConfig, audioContextRef,
                   ctxTime, audioSourceRef, audioBufferRef, playbackStartedAtRef,
                   playbackPausedAtRef, animationFrameRef, generationIdRef,
                   onEndedCallbackRef, requests, cache, pendingWrites, endedCalls,
                   halted,
                   seekedWhilePaused>>

\* setAudioConfig(prev => ({...prev, voice})), the voice selector of the settings
SetVoice(voice) ==
    /\ nextConfig' = [nextConfig EXCEPT !.voice = voice]
    /\ UNCHANGED appVars
    /\ UNCHANGED outputVars
    /\ UNCHANGED <<nextState, audioState, audioStateRef, audioConfig, audioContextRef,
                   ctxTime, audioSourceRef, nodes, audioBufferRef, playbackStartedAtRef,
                   playbackPausedAtRef, animationFrameRef, generationIdRef,
                   onEndedCallbackRef, requests, cache, pendingWrites, endedCalls,
                   halted,
                   seekedWhilePaused>>

\* mutant: a volume change restarts the track from its current resume offset
handleVolumeChangeRestarting(h, newVolume) ==
    play([h EXCEPT !.nextState.volume = newVolume,
                   !.nextState.isMuted = (newVolume = 0)],
         h.playbackPausedAtRef, "resume")

handleVolumeChange(h, newVolume) ==
    LET h1 == [h EXCEPT !.nextState.volume = newVolume,
                        !.nextState.isMuted = (newVolume = 0)]
    IN  IF h.gainNodeRef # NoNode /\ h.audioContextRef # "null"
        THEN [h1 EXCEPT !.gainValue = newVolume]
        ELSE h1

\* the volume slider
HandleVolumeChange(newVolume) ==
    /\ nextConfig = audioConfig
    /\ AssignCommitted(handleVolumeChange(H, newVolume))
    /\ seekedWhilePaused' = FALSE
    /\ UNCHANGED appVars
    /\ UNCHANGED <<nextConfig, audioConfig, ctxTime, generationIdRef, onEndedCallbackRef,
                   requests, cache, pendingWrites, halted>>

\* mutant: the toggle always silences the gain node
handleMuteToggleSilencing(h) ==
    LET newMutedState == ~audioState.isMuted
        h1 == [h EXCEPT !.nextState.isMuted = newMutedState]
    IN  IF h.gainNodeRef # NoNode /\ h.audioContextRef # "null"
        THEN [h1 EXCEPT !.gainValue = 0]
        ELSE h1

\* handleMuteToggle of the last render (it closes over audioState.isMuted)
handleMuteToggle(h) ==
    LET newMutedState == ~audioState.isMuted
        h1 == [h EXCEPT !.nextState.isMuted = newMutedState]
    IN  IF h.gainNodeRef # NoNode /\ h.audioContextRef # "null"
        THEN [h1 EXCEPT !.gainValue = IF newMutedState THEN 0
                                      ELSE audioStateRef.volume]
        ELSE h1

\* the mute button
HandleMuteToggle ==
    /\ nextConfig = audioConfig
    /\ AssignCommitted(handleMuteToggle(H))
    /\ seekedWhilePaused' = FALSE
    /\ UNCHANGED appVars
    /\ UNCHANGED <<nextConfig, audioConfig, ctxTime, generationIdRef, onEndedCallbackRef,
                   requests, cache, pendingWrites, halted>>

\* playPause called from code whose updates React batches: the update it queues is
\* rendered later, so a call that follows at once comes from the same render
PlayPauseBatched ==
    /\ nextConfig = audioConfig
    /\ playbackPausedAtRef < MaxOffset
    /\ IF audioState.status = "playing"
       THEN /\ Assign(pause(H))
            /\ halted' = IF audioContextRef # "null" /\ audioSourceRef # NoNode
                         THEN "paused" ELSE halted
       ELSE IF audioState.status = "paused"
       THEN /\ Assign(play(H, playbackPausedAtRef, "resume"))
            /\ halted' = IF audioBufferRef # NoBuffer /\ playbackPausedAtRef >= 0
                         THEN "no" ELSE halted
       ELSE /\ Assign(H)
            /\ UNCHANGED halted
    /\ seekedWhilePaused' = FALSE
    /\ UNCHANGED appVars
    /\ UNCHANGED <<audioState, audioStateRef, nextConfig, audioConfig, ctxTime,
                   generationIdRef, onEndedCallbackRef, requests, cache, pendingWrites>>

\* the cleanup of the hook's last effect, run when the component is unmounted:
\* stop(true), then the context is closed when there is one
Unmount ==
    /\ mounted
    /\ mounted' = FALSE
    /\ Assign([stop(H, TRUE) EXCEPT
                  !.audioContextRef = IF @ = "null" THEN @ ELSE "closed",
                  !.gainNodeRef = IF @ = NoNode THEN @ ELSE ClosedGain])
    /\ UNCHANGED <<paragraphApp, chapterApp, savedConfig, server, togglePlayer>>
    /\ UNCHANGED <<audioState, audioStateRef, nextConfig, audioConfig, ctxTime,
                   generationIdRef, onEndedCallbackRef, requests, cache, pendingWrites,
                   halted, seekedWhilePaused>>

\* handleMuteToggle called from code whose updates React batches: the update it
\* queues is rendered later, so a call that follows at once comes from the same render
HandleMuteToggleBatched ==
    /\ nextConfig = audioConfig
    /\ Assign(handleMuteToggle(H))
    /\ seekedWhilePaused' = FALSE
    /\ UNCHANGED appVars
    /\ UNCHANGED <<audioState, audioStateRef, nextConfig, audioConfig, ctxTime,
                   generationIdRef, onEndedCallbackRef, requests, cache, pendingWrites,
                   halted>>

\* ------------------------------------------------------------- Next
Next ==
    \/ \E track \in Tracks : LoadAndPlay(track)
    \/ \E r \in requests : GetAudioResolve(r)
    \/ \E r \in requests : GetAudioReject(r)
    \/ \E r \in requests : GenerateSpeechResolve(r)
    \/ \E r \in requests : GenerateSpeechReject(r)
    \/ \E r \in requests : DecodeResolve(r)
    \/ \E r \in requests : DecodeReject(r)
    \/ \E w \in pendingWrites : StoreAudioResolve(w)
    \/ \E w \in pendingWrites : StoreAudioReject(w)
    \/ Render
    \/ Tick
    \/ UpdateProgress
    \/ \E n \in DOMAIN nodes : SourceOnEnded(n)
    \/ PlayPause
    \/ \E time \in SeekTimes : SeekTo(time)
    \/ StopAudio

Spec == Init /\ [][Next]_vars

\* A burst of loadAndPlay calls, then their async work settling in any order, with
\* no other call into the player.
NextBurst ==
    \/ \E track \in Tracks : BurstLoadAndPlay(track)
    \/ \E r \in requests : GetAudioResolve(r)
    \/ \E r \in requests : GetAudioReject(r)
    \/ \E r \in requests : GenerateSpeechResolve(r)
    \/ \E r \in requests : GenerateSpeechReject(r)
    \/ \E r \in requests : DecodeResolve(r)
    \/ \E r \in requests : DecodeReject(r)
    \/ \E w \in pendingWrites : StoreAudioResolve(w)
    \/ \E w \in pendingWrites : StoreAudioReject(w)
    \/ Render
    \/ Tick
    \/ UpdateProgress
    \/ \E n \in DOMAIN nodes : SourceOnEnded(n)

SpecBurst == Init /\ [][NextBurst]_vars

\* The steps that run without the user: the async work of the requests, the cache
\* writes, the renders, the device clock, the frame callback and the ended event.
Scheduled ==
    \/ \E r \in requests : GetAudioResolve(r)
    \/ \E r \in requests : GetAudioReject(r)
    \/ \E r \in requests : GenerateSpeechResolve(r)
    \/ \E r \in requests : GenerateSpeechReject(r)
    \/ \E r \in requests : DecodeResolve(r)
    \/ \E r \in requests : DecodeReject(r)
    \/ \E w \in pendingWrites : StoreAudioResolve(w)
    \/ \E w \in pendingWrites : StoreAudioReject(w)
    \/ Render
    \/ Tick
    \/ UpdateProgress
    \/ \E n \in DOMAIN nodes : SourceOnEnded(n)

\* The player left alone once it shows an error: the user calls into it only while
\* status is not error.  Whatever is scheduled eventually runs.
NextUnattended ==
    \/ Scheduled
    \/ /\ nextState.status # "error"
       /\ \/ \E track \in Tracks : LoadAndPlay(track)
          \/ PlayPause
          \/ \E time \in SeekTimes : SeekTo(time)
          \/ StopAudio

SpecUnattended == Init /\ [][NextUnattended]_vars /\ WF_vars(Scheduled)

\* loadAndPlay called with any text, blank ones included, and left to settle
NextTexts ==
    \/ \E track \in Tracks \cup BlankTracks : LoadAndPlay(track)
    \/ Scheduled
    \/ StopAudio

SpecTexts == Init /\ [][NextTexts]_vars

\* The speed selector used while tracks load, play and are paused.
NextSpeed ==
    \/ \E track \in Tracks : LoadAndPlay(track)
    \/ Scheduled
    \/ PlayPause
    \/ \E newSpeed \in Speeds : HandleSpeedChange(newSpeed)

SpecSpeed == Init /\ [][NextSpeed]_vars

\* The volume slider and the mute button used while tracks load, play, are paused
\* and are stopped.
NextVolume ==
    \/ \E track \in Tracks : LoadAndPlay(track)
    \/ Scheduled
    \/ PlayPause
    \/ StopAudio
    \/ \E newVolume \in Volumes : HandleVolumeChange(newVolume)
    \/ HandleMuteToggle

SpecVolume == Init /\ [][NextVolume]_vars

\* The player with the ended events of the nodes it tore down delivered late.
NextEnded ==
    \/ \E track \in Tracks : LoadAndPlay(track)
    \/ Scheduled
    \/ PlayPause
    \/ \E time \in SeekTimes : SeekTo(time)
    \/ StopAudio
    \/ DetachedOnEnded

SpecEnded == Init /\ [][NextEnded]_vars

\* The mute button, pressed by the user or called in a batch, around loads.
NextMute ==
    \/ \E track \in Tracks : LoadAndPlay(track)
    \/ Scheduled
    \/ HandleMuteToggle
    \/ HandleMuteToggleBatched

SpecMute == Init /\ [][NextMute]_vars

\* The play/pause button, pressed by the user or called in a batch, around loads.
NextPause ==
    \/ \E track \in Tracks : LoadAndPlay(track)
    \/ Scheduled
    \/ PlayPause
    \/ PlayPauseBatched

SpecPause == Init /\ [][NextPause]_vars

\* The component is unmounted at any moment: from then on nothing calls into the
\* hook and nothing is rendered, and the async work already started goes on.
NextUnmount ==
    \/ mounted /\ \E track \in Tracks : LoadAndPlay(track)
    \/ mounted /\ PlayPause
    \/ mounted /\ Render
    \/ \E r \in requests : GetAudioResolve(r)
    \/ \E r \in requests : GetAudioReject(r)
    \/ \E r \in requests : GenerateSpeechResolve(r)
    \/ \E r \in requests : GenerateSpeechReject(r)
    \/ \E r \in requests : DecodeResolve(r)
    \/ \E r \in requests : DecodeReject(r)
    \/ \E w \in pendingWrites : StoreAudioResolve(w)
    \/ \E w \in pendingWrites : StoreAudioReject(w)
    \/ Tick
    \/ UpdateProgress
    \/ \E n \in DOMAIN nodes : SourceOnEnded(n)
    \/ Unmount

SpecUnmount == Init /\ [][NextUnmount]_vars

\* ------------------------------------------------ the toggle-based hook
ToggleFrozen ==
    UNCHANGED <<nextState, audioState, audioStateRef, nextConfig, audioConfig,
                audioContextRef, ctxTime, audioSourceRef, nodes, audioBufferRef,
                playbackStartedAtRef, playbackPausedAtRef, animationFrameRef,
                generationIdRef, onEndedCallbackRef, requests, cache, pendingWrites,
                endedCalls, halted, seekedWhilePaused, gainNodeRef, gainValue,
                detachedEnded, paragraphApp, chapterApp, savedConfig, server, mounted>>

MissingTextMessage == "Conteudo do paragrafo nao encontrado."

toggleStopAudio(a, resetState) ==
    LET a1 == [a EXCEPT !.animationFrameRef = NoToggleFrame,
                        !.audioSourceRef = NoToggleSource]
    IN  IF resetState
        THEN [a1 EXCEPT !.nextState = ToggleIdle,
                        !.playbackProgress = 0,
                        !.playbackProgressRef = 0,
                        !.audioBufferRef = 0]
        ELSE a1

playInternal(a, buffer, startTime, chapterIndex, paragraphIndex) ==
    LET a1 == toggleStopAudio([a EXCEPT !.audioContextRef = "running"], FALSE)
    IN  [a1 EXCEPT !.playbackStartTimeRef = a.ctxTime,
                   !.audioSourceRef = [startTime |-> startTime, startedAt |-> a.ctxTime,
                                       chapterIndex |-> chapterIndex,
                                       paragraphIndex |-> paragraphIndex,
                                       duration |-> buffer],
                   !.nextState = [status |-> "playing", chapterIndex |-> chapterIndex,
                                  paragraphIndex |-> paragraphIndex, errorMessage |-> ""],
                   !.animationFrameRef = startTime]

\* the catch block of toggleAudio: the error state, and a timer of 5 seconds
toggleCatch(a, chapterIndex, paragraphIndex, errorMessage) ==
    [a EXCEPT !.nextState = [status |-> "error", chapterIndex |-> chapterIndex,
                             paragraphIndex |-> paragraphIndex,
                             errorMessage |-> errorMessage],
              !.timers = @ + 1]

\* toggleAudio of the last render, up to its first await
toggleAudio(a, track) ==
    LET isCurrentParagraphActive ==
            /\ a.audioState.chapterIndex = track.chapterIndex
            /\ a.audioState.paragraphIndex = track.paragraphIndex
    IN  IF a.audioState.status = "playing" /\ isCurrentParagraphActive
        THEN LET elapsed == a.ctxTime - a.playbackStartTimeRef
                 a1 == IF a.audioContextRef # "null"
                       THEN [a EXCEPT !.playbackProgressRef = @ + elapsed * a.speed]
                       ELSE a
             IN  [toggleStopAudio(a1, FALSE) EXCEPT
                     !.nextState = [status |-> "paused",
                                    chapterIndex |-> track.chapterIndex,
                                    paragraphIndex |-> track.paragraphIndex,
                                    errorMessage |-> ""]]
        ELSE IF a.audioState.status = "paused" /\ isCurrentParagraphActive
        THEN IF a.audioBufferRef # 0
             THEN playInternal(a, a.audioBufferRef, a.playbackProgressRef,
                               track.chapterIndex, track.paragraphIndex)
             ELSE a
        ELSE LET a1 == [toggleStopAudio(a, FALSE) EXCEPT
                           !.playbackProgressRef = 0,
                           !.playbackProgress = 0,
                           !.audioBufferRef = 0,
                           !.nextState = [status |-> "loading",
                                          chapterIndex |-> track.chapterIndex,
                                          paragraphIndex |-> track.paragraphIndex,
                                          errorMessage |-> ""]]
             IN  IF track.text = ""
                 THEN toggleCatch(a1, track.chapterIndex, track.paragraphIndex,
                                  MissingTextMessage)
                 ELSE [a1 EXCEPT !.requests = @ \cup
                          {[id |-> a.calls + 1, chapterIndex |-> track.chapterIndex,
                            paragraphIndex |-> track.paragraphIndex,
                            pc |-> "generateSpeech"]}]

\* a click on a paragraph's button; the click's updates are rendered at once
ToggleAudio(track) ==
    /\ togglePlayer.calls < MaxToggleCalls
    /\ LET a == toggleAudio(togglePlayer, track)
       IN  togglePlayer' = [a EXCEPT !.calls = @ + 1, !.audioState = a.nextState]
    /\ ToggleFrozen

\* generateSpeech resolves: the context is created if there is none, decoding starts
ToggleSpeechResolve(r) ==
    /\ r.pc = "generateSpeech"
    /\ togglePlayer' = [togglePlayer EXCEPT
            !.audioContextRef = "running",
            !.requests = (@ \ {r}) \cup {[r EXCEPT !.pc = "decodeAudioData"]}]
    /\ ToggleFrozen

ToggleSpeechReject(r) ==
    /\ r.pc = "generateSpeech"
    /\ togglePlayer' = [toggleCatch(togglePlayer, r.chapterIndex, r.paragraphIndex,
                                    SynthesisErrorMessage)
                        EXCEPT !.requests = @ \ {r}]
    /\ ToggleFrozen

ToggleDecodeResolve(r) ==
    /\ r.pc = "decodeAudioData"
    /\ togglePlayer' =
         [playInternal([togglePlayer EXCEPT !.audioBufferRef = ToggleDuration],
                       ToggleDuration, 0, r.chapterIndex, r.paragraphIndex)
          EXCEPT !.requests = @ \ {r}]
    /\ ToggleFrozen

ToggleDecodeReject(r) ==
    /\ r.pc = "decodeAudioData"
    /\ togglePlayer' = [toggleCatch(togglePlayer, r.chapterIndex, r.paragraphIndex,
                                    LoadErrorMessage)
                        EXCEPT !.requests = @ \ {r}]
    /\ ToggleFrozen

\* a timer set by a catch block fires, 5 seconds after the failure
ToggleTimer ==
    /\ togglePlayer.timers > 0
    /\ togglePlayer' = [togglePlayer EXCEPT !.nextState = ToggleIdle,
                                            !.timers = @ - 1]
    /\ ToggleFrozen

ToggleRender ==
    /\ togglePlayer.nextState # togglePlayer.audioState
    /\ togglePlayer' = [togglePlayer EXCEPT !.audioState = togglePlayer.nextState]
    /\ ToggleFrozen

ToggleTick ==
    /\ togglePlayer.audioContextRef = "running"
    /\ togglePlayer.ctxTime < MaxToggleTime
    /\ togglePlayer' = [togglePlayer EXCEPT !.ctxTime = @ + 1]
    /\ ToggleFrozen

\* updateProgress of the playInternal call that scheduled the frame
ToggleUpdateProgress ==
    /\ togglePlayer.animationFrameRef # NoToggleFrame
    /\ LET a == togglePlayer
           startTime == a.animationFrameRef
           elapsedSinceStart == a.ctxTime - a.playbackStartTimeRef
           currentPosition == startTime + elapsedSinceStart * a.speed
           percent == (currentPosition * 100) \div a.audioBufferRef
           progress == IF percent > 100 THEN 100 ELSE percent
       IN  IF a.audioContextRef = "null" \/ a.audioBufferRef = 0
           THEN togglePlayer' = [a EXCEPT !.animationFrameRef = NoToggleFrame]
           ELSE togglePlayer' =
                   [a EXCEPT !.playbackProgress = progress,
                             !.animationFrameRef = IF progress < 100 THEN startTime
                                                   ELSE NoToggleFrame]
    /\ ToggleFrozen

\* the ended event of the node held, once it has played its buffer to the end
ToggleSourceOnEnded ==
    /\ togglePlayer.audioSourceRef # NoToggleSource
    /\ LET a == togglePlayer
           source == a.audioSourceRef
           a1 == [a EXCEPT !.animationFrameRef = NoToggleFrame,
                           !.audioSourceRef.startTime = -2]
       IN  /\ source.startTime >= 0
           /\ source.startTime + (a.ctxTime - source.startedAt) * a.speed
                 >= source.duration
           /\ togglePlayer' =
                IF /\ a.nextState.status = "playing"
                   /\ a.nextState.chapterIndex = source.chapterIndex
                   /\ a.nextState.paragraphIndex = source.paragraphIndex
                THEN toggleStopAudio(a1, TRUE)
                ELSE a1
    /\ ToggleFrozen

NextToggle ==
    \/ \E track \in ToggleTracks : ToggleAudio(track)
    \/ \E r \in togglePlayer.requests : ToggleSpeechResolve(r)
    \/ \E r \in togglePlayer.requests : ToggleSpeechReject(r)
    \/ \E r \in togglePlayer.requests : ToggleDecodeResolve(r)
    \/ \E r \in togglePlayer.requests : ToggleDecodeReject(r)
    \/ ToggleTimer
    \/ ToggleRender
    \/ ToggleTick
    \/ ToggleUpdateProgress
    \/ ToggleSourceOnEnded

\* the other hook stays as one of the initial states has it
InitToggle == Init /\ nextConfig = DefaultConfig

SpecToggle == InitToggle /\ [][NextToggle]_vars

\* ------------------------------------------------ startup
\* Before the first render: localStorage holds any item, nothing is mounted.
Unmounted == [voice |-> "", speed |-> 0]

InitConfig ==
    /\ savedConfig \in StoredConfigs
    /\ nextConfig = Unmounted
    /\ audioConfig = Unmounted
    /\ nextState = InitialAudioState(0)
    /\ audioState = nextState
    /\ audioStateRef = nextState
    /\ audioContextRef = "null"
    /\ ctxTime = 0
    /\ audioSourceRef = NoNode
    /\ nodes = <<>>
    /\ audioBufferRef = NoBuffer
    /\ playbackStartedAtRef = 0
    /\ playbackPausedAtRef = 0
    /\ animationFrameRef = FALSE
    /\ generationIdRef = 0
    /\ onEndedCallbackRef = NoCallback
    /\ requests = {}
    /\ cache = <<>>
    /\ pendingWrites = {}
    /\ endedCalls = 0
    /\ halted = "no"
    /\ seekedWhilePaused = FALSE
    /\ gainNodeRef = NoNode
    /\ gainValue = 1
    /\ detachedEnded = "none"
    /\ paragraphApp = [InitialParagraphApp EXCEPT !.audioConfig = NoConfig]
    /\ chapterApp = InitialChapterApp
    /\ server = InitialServer
    /\ mounted = TRUE
    /\ togglePlayer = InitialTogglePlayer

\* the first render of useAudioPlayer (src/types.ts)
MountPlayer ==
    /\ audioConfig = Unmounted
    /\ LET loaded == playerAudioConfig(savedConfig)
           config == [voice |-> loaded.voice.string, speed |-> loaded.speed.number]
       IN  /\ audioConfig' = config
           /\ nextConfig' = config
           /\ nextState' = InitialAudioState(config.speed)
           /\ audioState' = nextState'
           /\ audioStateRef' = nextState'
    /\ UNCHANGED appVars
    /\ UNCHANGED outputVars
    /\ UNCHANGED <<audioContextRef, ctxTime, audioSourceRef, nodes, audioBufferRef,
                   playbackStartedAtRef, playbackPausedAtRef, animationFrameRef,
                   generationIdRef, onEndedCallbackRef, requests, cache, pendingWrites,
                   endedCalls, halted, seekedWhilePaused>>

\* the first render of the App of src/unnamed/part_001
MountApp ==
    /\ paragraphApp.audioConfig = NoConfig
    /\ paragraphApp' = [paragraphApp EXCEPT !.audioConfig = appAudioConfig(savedConfig)]
    /\ UNCHANGED outputVars
    /\ UNCHANGED <<nextState, audioState, audioStateRef, nextConfig, audioConfig,
                   audioContextRef, ctxTime, audioSourceRef, nodes, audioBufferRef,
                   playbackStartedAtRef, playbackPausedAtRef, animationFrameRef,
                   generationIdRef, onEndedCallbackRef, requests, cache, pendingWrites,
                   endedCalls, halted, seekedWhilePaused, chapterApp, savedConfig, server, mounted, togglePlayer>>

NextConfig ==
    \/ MountPlayer
    \/ MountApp

SpecConfig == InitConfig /\ [][NextConfig]_vars

\* ------------------------------------------------ the API's handlers
ServerFrozen ==
    UNCHANGED <<nextState, audioState, audioStateRef, nextConfig, audioConfig,
                audioContextRef, ctxTime, audioSourceRef, nodes, audioBufferRef,
                playbackStartedAtRef, playbackPausedAtRef, animationFrameRef,
                generationIdRef, onEndedCallbackRef, requests, cache, pendingWrites,
                endedCalls, halted, seekedWhilePaused, gainNodeRef, gainValue,
                detachedEnded, paragraphApp, chapterApp, savedConfig, mounted,
                togglePlayer>>

\* a POST from an allowed origin, from client ip to one of the three endpoints: the
\* handler answers 429 with the limiter's info (server.info), or goes on to its
\* work (status 200 stands for every answer it gives after the limiter let the
\* request through).
\* server.window keeps, for the key, the reset time of the window the request falls
\* in and the requests let through in it.
Handler(ip, endpoint) ==
    /\ LET key == StoreKey(ip, endpoint)
           entry == server.rateLimitStore[key]
       IN  \/ entry = NoEntry
           \/ server.now > entry.resetAt
           \/ entry.count < RATE_LIMITS[endpoint].max + MaxRejected
    /\ \E clean \in BOOLEAN :
        LET key == StoreKey(ip, endpoint)
            checked == checkRateLimit(server.rateLimitStore, server.now, ip, endpoint, clean)
            info == getRateLimitInfo(checked.store, server.now, ip, endpoint)
            went == IF checked.allowed THEN 1 ELSE 0
            window == server.window[key]
        IN  server' = [server EXCEPT
                !.rateLimitStore = checked.store,
                !.status = IF checked.allowed THEN 200 ELSE 429,
                !.info = IF checked.allowed THEN NoInfo ELSE info,
                !.window[key] =
                    IF window = NoWindow \/ server.now > window.resetAt
                    THEN [allowed |-> went,
                          resetAt |-> server.now + RATE_LIMITS[endpoint].windowMs]
                    ELSE [window EXCEPT !.allowed = @ + went]]
    /\ ServerFrozen

\* Date.now() moves on by one window length
ServerClock ==
    /\ server.now < MaxServerTicks * RATE_LIMITS["generate-plan"].windowMs
    /\ server' = [server EXCEPT !.now = @ + RATE_LIMITS["generate-plan"].windowMs]
    /\ ServerFrozen

\* the key's window is open, past its first request and with room left
MidWindow(key) ==
    LET entry == server.rateLimitStore[key]
    IN  /\ entry # NoEntry
        /\ ~(server.now > entry.resetAt)
        /\ 1 < entry.count
        /\ entry.count < RATE_LIMITS[key[2]].max

\* The clients take turns: the requests that take a window from its second request
\* to its last allowed one come with no request to another key and no move of the
\* clock in between.  First requests, and requests to a full window, come at any
\* time.
InTurn(request) == \A other \in ApiRequests \ {request} : ~MidWindow(other)

ClockInTurn == \A request \in ApiRequests : ~MidWindow(request)

NextServer ==
    \/ \E request \in ApiRequests : InTurn(request) /\ Handler(request[1], request[2])
    \/ ClockInTurn /\ ServerClock

\* the browser's side stays as one of the initial states has it
InitServer == Init /\ nextConfig = DefaultConfig

SpecServer == InitServer /\ [][NextServer]_vars

\* ------------------------------------ paragraph by paragraph: handlers
\* what the handlers created by the last render of a see
Closure(a) ==
    [status |-> a.audioState.status, currentTime |-> a.audioState.currentTime,
     duration |-> a.audioState.duration,
     currentParagraphIndex |-> a.currentParagraphIndex]

hookStop(a, resetFullState) ==
    LET a1 == [a EXCEPT !.animationFrame = NoClosure, !.audioSourceRef = NoSource]
    IN  IF resetFullState
        THEN [a1 EXCEPT !.nextState = IdleAudio,
                        !.audioBufferRef = 0,
                        !.playbackPausedAtRef = 0]
        ELSE a1

\* play(startTime) of the render whose closure is c
hookPlay(a, c, startTime) ==
    IF a.audioBufferRef = 0 THEN a
    ELSE LET a1 == hookStop([a EXCEPT !.audioContextRef = "running"], FALSE)
         IN  [a1 EXCEPT !.audioSourceRef = [pos |-> Min(startTime, a1.audioBufferRef),
                                            duration |-> a1.audioBufferRef,
                                            closure |-> c],
                        !.playbackStartedAtRef = a1.ctxTime,
                        !.playbackPausedAtRef = startTime,
                        !.nextState.status = "playing",
                        !.animationFrame = c]

hookPause(a) ==
    IF a.audioContextRef = "null" THEN a
    ELSE LET elapsed == a.ctxTime - a.playbackStartedAtRef
             a1 == hookStop([a EXCEPT !.playbackPausedAtRef = @ + elapsed], FALSE)
         IN  [a1 EXCEPT !.nextState.status = "paused"]

\* playPause of the render whose closure is c
hookPlayPause(a, c) ==
    IF c.status = "playing" THEN hookPause(a)
    ELSE IF c.status = "paused" THEN hookPlay(a, c, a.playbackPausedAtRef)
    ELSE a

\* loadAndPlay of the render whose closure is c, up to its first await; onEnded is
\* the closure of the callback passed
hookLoadAndPlay(a, c, paragraphIndex, onEnded) ==
    LET currentGenerationId == a.generationIdRef + 1
        a1 == hookStop([a EXCEPT !.onEndedCallbackRef = onEnded,
                                 !.generationIdRef = currentGenerationId], TRUE)
    IN  [a1 EXCEPT !.nextState.status = "loading",
                   !.requests = @ \cup {[gen |-> currentGenerationId,
                                         paragraphIndex |-> paragraphIndex,
                                         pc |-> "generateSpeech",
                                         closure |-> c]}]

handleStopChapterPlayback(a) ==
    hookStop([a EXCEPT !.nextChapterPlaybackState = "idle"], TRUE)

\* handleParagraphPlay of the render whose closure is c
handleParagraphPlay(a, c, paragraphIndex, onEndedCallback) ==
    LET a1 == handleStopChapterPlayback(a)
    IN  IF paragraphIndex >= 0 /\ paragraphIndex < Len(Paragraphs)
        THEN hookLoadAndPlay(a1, c, paragraphIndex, onEndedCallback)
        ELSE a1

\* playNextParagraph of the render whose closure is c; it passes itself on
playNextParagraph(a, c) ==
    LET nextIndex == c.currentParagraphIndex + 1
    IN  IF nextIndex < Len(Paragraphs)
        THEN handleParagraphPlay([a EXCEPT !.nextParagraphIndex = nextIndex],
                                 c, nextIndex, c)
        ELSE [a EXCEPT !.nextChapterPlaybackState = "idle"]

\* the commit of the queued state
Commit(a) ==
    [a EXCEPT !.audioState = a.nextState,
              !.currentParagraphIndex = a.nextParagraphIndex,
              !.chapterPlaybackState = a.nextChapterPlaybackState]

ParagraphRenderPending ==
    \/ paragraphApp.nextState # paragraphApp.audioState
    \/ paragraphApp.nextParagraphIndex # paragraphApp.currentParagraphIndex
    \/ paragraphApp.nextChapterPlaybackState # paragraphApp.chapterPlaybackState

ParagraphFrozen ==
    UNCHANGED <<nextState, audioState, audioStateRef, nextConfig, audioConfig,
                audioContextRef, ctxTime, audioSourceRef, nodes, audioBufferRef,
                playbackStartedAtRef, playbackPausedAtRef, animationFrameRef,
                generationIdRef, onEndedCallbackRef, requests, cache, pendingWrites,
                endedCalls, halted, seekedWhilePaused, gainNodeRef, gainValue,
                detachedEnded,
                chapterApp, savedConfig, server, mounted, togglePlayer>>

\* a click on the chapter playback button; the click's updates are committed
HandleChapterPlaybackToggle ==
    /\ paragraphApp.toggles < MaxToggles
    /\ LET a == [paragraphApp EXCEPT !.toggles = @ + 1]
           c == Closure(a)
       IN  paragraphApp' = Commit(
               IF a.chapterPlaybackState = "playing"
               THEN hookPlayPause([a EXCEPT !.nextChapterPlaybackState = "paused"], c)
               ELSE LET a1 == [hookStop(a, TRUE) EXCEPT
                                   !.nextChapterPlaybackState = "playing"]
                        startIndex == IF a.chapterPlaybackState = "paused"
                                      THEN a.currentParagraphIndex ELSE 0
                        a2 == IF startIndex = 0 /\ a.currentParagraphIndex # 0
                              THEN [a1 EXCEPT !.nextParagraphIndex = 0] ELSE a1
                    IN  IF startIndex < Len(Paragraphs)
                        THEN handleParagraphPlay(a2, c, startIndex, c)
                        ELSE a2)
    /\ ParagraphFrozen

\* await generateSpeech(text, voice) resolves
ParagraphSpeechResolve(r) ==
    /\ r \in paragraphApp.requests
    /\ r.pc = "generateSpeech"
    /\ paragraphApp' =
           IF r.gen # paragraphApp.generationIdRef
           THEN [paragraphApp EXCEPT !.requests = @ \ {r}]
           ELSE [paragraphApp EXCEPT
                     !.requests = (@ \ {r}) \cup {[r EXCEPT !.pc = "decodeAudioData"]},
                     !.audioContextRef = "running"]
    /\ ParagraphFrozen

\* await generateSpeech or await decodeAudioData rejects: the catch block
ParagraphLoadReject(r) ==
    /\ r \in paragraphApp.requests
    /\ paragraphApp' =
           IF r.gen = paragraphApp.generationIdRef
           THEN [paragraphApp EXCEPT !.requests = @ \ {r},
                                     !.nextState.status = "error",
                                     !.failed = TRUE]
           ELSE [paragraphApp EXCEPT !.requests = @ \ {r}]
    /\ ParagraphFrozen

\* await decodeAudioData resolves; play(0) is the one loadAndPlay closed over
ParagraphDecodeResolve(r) ==
    /\ r \in paragraphApp.requests
    /\ r.pc = "decodeAudioData"
    /\ paragraphApp' =
           IF r.gen # paragraphApp.generationIdRef
           THEN [paragraphApp EXCEPT !.requests = @ \ {r}]
           ELSE LET a1 == [paragraphApp EXCEPT
                               !.requests = @ \ {r},
                               !.audioBufferRef = ParagraphDuration,
                               !.nextState.duration = ParagraphDuration,
                               !.played = Append(@, r.paragraphIndex)]
                IN  hookPlay(a1, r.closure, 0)
    /\ ParagraphFrozen

ParagraphRender ==
    /\ ParagraphRenderPending
    /\ paragraphApp' = Commit(paragraphApp)
    /\ ParagraphFrozen

\* the device clock advances by one tick
ParagraphTick ==
    /\ paragraphApp.audioContextRef = "running"
    /\ paragraphApp.ctxTime < MaxClock
    /\ ~ParagraphRenderPending
    /\ paragraphApp' =
           [paragraphApp EXCEPT
                !.ctxTime = @ + 1,
                !.audioSourceRef = IF @ = NoSource THEN @
                                   ELSE [@ EXCEPT !.pos = Min(@ + 1,
                                            paragraphApp.audioSourceRef.duration)]]
    /\ ParagraphFrozen

\* updateProgress of the play call that scheduled it, run as the frame callback
ParagraphUpdateProgress ==
    /\ paragraphApp.animationFrame # NoClosure
    /\ LET a == paragraphApp
           c == a.animationFrame
           newCurrentTime == a.playbackPausedAtRef + (a.ctxTime - a.playbackStartedAtRef)
       IN  paragraphApp' =
               IF a.audioContextRef = "null" \/ a.audioSourceRef = NoSource
               THEN [a EXCEPT !.animationFrame = NoClosure]
               ELSE [a EXCEPT !.nextState.currentTime = newCurrentTime,
                              !.animationFrame = IF newCurrentTime < c.duration
                                                 THEN c ELSE NoClosure]
    /\ ParagraphFrozen

\* source.onended of the node held, once it has emitted its whole buffer
ParagraphSourceOnEnded ==
    /\ paragraphApp.audioSourceRef # NoSource
    /\ paragraphApp.audioSourceRef.pos >= paragraphApp.audioSourceRef.duration
    /\ Len(paragraphApp.played) < MaxPlayed
    /\ LET a == paragraphApp
           c == a.audioSourceRef.closure
           wasPlaying == c.status = "playing"
           reachedEnd == c.currentTime = c.duration
           a1 == hookStop(a, TRUE)
       IN  paragraphApp' =
               IF wasPlaying /\ reachedEnd /\ a.onEndedCallbackRef # NoClosure
               THEN playNextParagraph(a1, a.onEndedCallbackRef)
               ELSE a1
    /\ ParagraphFrozen

NextParagraphs ==
    \/ HandleChapterPlaybackToggle
    \/ \E r \in paragraphApp.requests : ParagraphSpeechResolve(r)
    \/ \E r \in paragraphApp.requests : ParagraphLoadReject(r)
    \/ \E r \in paragraphApp.requests : ParagraphDecodeResolve(r)
    \/ ParagraphRender
    \/ ParagraphTick
    \/ ParagraphUpdateProgress
    \/ ParagraphSourceOnEnded

SpecParagraphs == Init /\ [][NextParagraphs]_vars

\* ----------------------------------- chapter after chapter: handlers
\* onAudioEnded as the render of a creates it: what its closure holds
ChapterClosure(a) ==
    [isPlayingSummary |-> a.audioState.trackInfo.summary,
     selectedChapterIndex |-> a.selectedChapterIndex]

\* visibleChapters.findIndex(vc => vc.originalIndex === index), counted from 1;
\* 0 when no element matches
FindIndex(index) ==
    IF \E i \in 1..Len(VisibleChapters) : VisibleChapters[i] = index
    THEN CHOOSE i \in 1..Len(VisibleChapters) : VisibleChapters[i] = index
    ELSE 0

\* the player's loadAndPlay, up to its first await
playerLoadAndPlay(a, chapterIndex, summary, onEnded) ==
    LET currentGenerationId == a.generationIdRef + 1
        track == [chapterIndex |-> chapterIndex, summary |-> summary]
    IN  [a EXCEPT !.onEndedCallbackRef = onEnded,
                  !.generationIdRef = currentGenerationId,
                  !.nextState = [status |-> "loading", trackInfo |-> track],
                  !.requests = @ \cup {[gen |-> currentGenerationId, track |-> track]},
                  !.calls = Append(@, [track |-> track, onEnded |-> onEnded])]

\* onAudioEnded with the closure c
onAudioEnded(a, c) ==
    IF c.isPlayingSummary
    THEN playerLoadAndPlay(a, c.selectedChapterIndex, FALSE, c)
    ELSE LET nextVisibleIndex == FindIndex(c.selectedChapterIndex) + 1
         IN  IF nextVisibleIndex <= Len(VisibleChapters)
             THEN [a EXCEPT !.autoPlayOnChapterChangeRef = TRUE,
                            !.nextSelectedChapterIndex = VisibleChapters[nextVisibleIndex]]
             ELSE a

\* the effect on [selectedChapterIndex, ..., onAudioEnded], run by the render of a
autoPlayEffect(a) ==
    IF a.autoPlayOnChapterChangeRef
    THEN playerLoadAndPlay([a EXCEPT !.autoPlayOnChapterChangeRef = FALSE],
                           a.selectedChapterIndex, FALSE, ChapterClosure(a))
    ELSE a

\* The commit of the queued state; the effect runs when the selection or the
\* track's title, which onAudioEnded depends on, has changed.
CommitChapters(a) ==
    LET a1 == [a EXCEPT !.audioState = a.nextState,
                        !.selectedChapterIndex = a.nextSelectedChapterIndex]
    IN  IF \/ a.nextSelectedChapterIndex # a.selectedChapterIndex
           \/ a.nextState.trackInfo # a.audioState.trackInfo
        THEN autoPlayEffect(a1)
        ELSE a1

ChapterRenderPending ==
    \/ chapterApp.nextState # chapterApp.audioState
    \/ chapterApp.nextSelectedChapterIndex # chapterApp.selectedChapterIndex

ChapterFrozen ==
    UNCHANGED <<nextState, audioState, audioStateRef, nextConfig, audioConfig,
                audioContextRef, ctxTime, audioSourceRef, nodes, audioBufferRef,
                playbackStartedAtRef, playbackPausedAtRef, animationFrameRef,
                generationIdRef, onEndedCallbackRef, requests, cache, pendingWrites,
                endedCalls, halted, seekedWhilePaused, gainNodeRef, gainValue,
                detachedEnded,
                paragraphApp, savedConfig, server, mounted, togglePlayer>>

\* a click of the user: the handler runs against the last render, one more click
Click(a) == [a EXCEPT !.clicks = @ + 1]

\* the button that plays the selected chapter
PlayChapterClick ==
    /\ chapterApp.clicks < MaxClicks
    /\ chapterApp.audioState.status # "loading"
    /\ LET a == Click(chapterApp)
       IN  chapterApp' = CommitChapters(
               playerLoadAndPlay(a, a.selectedChapterIndex, FALSE, ChapterClosure(a)))
    /\ ChapterFrozen

\* handlePlaySummary, the summary shown being that of chapter index
HandlePlaySummary(index) ==
    /\ chapterApp.clicks < MaxClicks
    /\ chapterApp.audioState.status # "loading"
    /\ LET a == Click(chapterApp)
       IN  chapterApp' = CommitChapters(
               playerLoadAndPlay([a EXCEPT !.nextSelectedChapterIndex = index],
                                 index, TRUE, ChapterClosure(a)))
    /\ ChapterFrozen

navigateChapterAudio(a, step) ==
    LET currentVisibleIndex == FindIndex(a.selectedChapterIndex)
        targetVisibleIndex == currentVisibleIndex + step
    IN  IF currentVisibleIndex = 0 THEN a
        ELSE IF targetVisibleIndex >= 1 /\ targetVisibleIndex <= Len(VisibleChapters)
        THEN [a EXCEPT !.autoPlayOnChapterChangeRef =
                           IF a.audioState.status \in {"playing", "paused"}
                           THEN TRUE ELSE @,
                       !.nextSelectedChapterIndex = VisibleChapters[targetVisibleIndex]]
        ELSE a

isNextDisabled(a) ==
    IF a.audioState.trackInfo.summary THEN FALSE
    ELSE FindIndex(a.selectedChapterIndex) - 1 >= Len(VisibleChapters) - 1

HandleNextChapter ==
    /\ chapterApp.clicks < MaxClicks
    /\ ~isNextDisabled(chapterApp)
    /\ LET a == Click(chapterApp)
       IN  chapterApp' = CommitChapters(
               IF a.audioState.trackInfo.summary
               THEN playerLoadAndPlay(a, a.selectedChapterIndex, FALSE,
                                      ChapterClosure(a))
               ELSE navigateChapterAudio(a, 1))
    /\ ChapterFrozen

HandleChapterSelect(index) ==
    /\ chapterApp.clicks < MaxClicks
    /\ LET a == Click(chapterApp)
       IN  chapterApp' = CommitChapters(
               [a EXCEPT !.autoPlayOnChapterChangeRef =
                             a.audioState.status \in {"playing", "paused"},
                         !.nextSelectedChapterIndex = index])
    /\ ChapterFrozen

\* the load of request r settles well: the player starts the track
ChapterLoadResolve(r) ==
    /\ r \in chapterApp.requests
    /\ chapterApp' =
           IF r.gen = chapterApp.generationIdRef
           THEN [chapterApp EXCEPT !.requests = @ \ {r},
                                   !.nextState.status = "playing"]
           ELSE [chapterApp EXCEPT !.requests = @ \ {r}]
    /\ ChapterFrozen

\* the load of request r fails
ChapterLoadReject(r) ==
    /\ r \in chapterApp.requests
    /\ chapterApp' =
           IF r.gen = chapterApp.generationIdRef
           THEN [chapterApp EXCEPT !.requests = @ \ {r},
                                   !.nextState.status = "error"]
           ELSE [chapterApp EXCEPT !.requests = @ \ {r}]
    /\ ChapterFrozen

ChapterRender ==
    /\ ChapterRenderPending
    /\ chapterApp' = CommitChapters(chapterApp)
    /\ ChapterFrozen

\* The track playing reaches its end: the player stops with a full reset and
\* invokes the callback it holds.
ChapterTrackEnds ==
    /\ chapterApp.audioState.status = "playing"
    /\ ~ChapterRenderPending
    /\ chapterApp.ends < MaxEnds
    /\ LET a == [chapterApp EXCEPT !.nextState = IdleChapterAudio, !.ends = @ + 1]
       IN  chapterApp' = IF a.onEndedCallbackRef # NoChapterCallback
                         THEN onAudioEnded(a, a.onEndedCallbackRef)
                         ELSE a
    /\ ChapterFrozen

NextChapters ==
    \/ PlayChapterClick
    \/ \E index \in 0..(Chapters - 1) : HandlePlaySummary(index)
    \/ HandleNextChapter
    \/ \E index \in 0..(Chapters - 1) : HandleChapterSelect(index)
    \/ \E r \in chapterApp.requests : ChapterLoadResolve(r)
    \/ \E r \in chapterApp.requests : ChapterLoadReject(r)
    \/ ChapterRender
    \/ ChapterTrackEnds

SpecChapters == Init /\ [][NextChapters]_vars


\* ================================================================ claims
TrackOf(text) == CHOOSE t \in Tracks : t.text = text

\* a step of the async work of request r: one of its awaits resolves or rejects
RequestStep(r) ==
    \/ GetAudioResolve(r) \/ GetAudioReject(r)
    \/ GenerateSpeechResolve(r) \/ GenerateSpeechReject(r)
    \/ DecodeResolve(r) \/ DecodeReject(r)

RequestFails(r) == GetAudioReject(r) \/ GenerateSpeechReject(r) \/ DecodeReject(r)

\* C1 - token monotonicity.  After a burst of N loadAndPlay calls, no step of the
\* async work of calls 1..N-1 changes the state (status, track, duration, error
\* message), the decoded buffer or the output nodes; the decode of call N, when it
\* resolves, stores the buffer decoded from N's audio, sets N's duration, starts
\* one node at offset 0 and sets status to playing with N's track; a failure of
\* call N sets status to error and keeps N's track, with no buffer and no node.
C1_TokenMonotonicity ==
    [][\A r \in requests :
        /\ (r.gen # generationIdRef /\ RequestStep(r)) =>
              /\ nextState' = nextState
              /\ audioBufferRef' = audioBufferRef
              /\ nodes' = nodes
              /\ audioSourceRef' = audioSourceRef
        /\ (r.gen = generationIdRef /\ DecodeResolve(r)) =>
              /\ nextState'.status = "playing"
              /\ nextState'.trackInfo = TrackOf(r.text)
              /\ nextState'.duration = TextDuration(r.text)
              /\ audioBufferRef' = [bytes |-> [voice |-> r.voice, text |-> r.text],
                                    duration |-> TextDuration(r.text)]
              /\ DOMAIN nodes' = {audioSourceRef'}
              /\ nodes'[audioSourceRef'].offset = 0
              /\ nodes'[audioSourceRef'].duration = TextDuration(r.text)
        /\ (r.gen = generationIdRef /\ RequestFails(r)) =>
              /\ nextState'.status = "error"
              /\ nextState'.errorMessage # NoError
              /\ nextState'.trackInfo = TrackOf(r.text)
              /\ audioBufferRef' = NoBuffer
              /\ nodes' = <<>>
    ]_vars

\* Three calls were issued, the third one's result has been applied and an earlier
\* call's decode is still to resolve.
C1_Witness ==
    /\ generationIdRef = 3
    /\ nextState.status = "playing"
    /\ nextState.trackInfo.text = audioBufferRef.bytes.text
    /\ \E r \in requests : r.gen < generationIdRef /\ r.pc = "decodeAudioData"

\* C2 - single active node.  In every reachable state at most one output node is
\* started and not torn down.
C2_SingleActiveNode == Cardinality(DOMAIN nodes) <= 1

\* The second track is playing on a node that a seek restarted.
C2_Witness ==
    /\ generationIdRef = 2
    /\ audioSourceRef # NoNode
    /\ nodes[audioSourceRef].origin = "seek"
    /\ Cardinality(DOMAIN nodes) = 1

\* C3 - stop() cancels an in-flight load.  After stop() has been called on a
\* track and until a new loadAndPlay is issued, every step of a load that was
\* still in flight (cache lookup, synthesis or decode, resolving or failing) is
\* inert: it leaves status, errorMessage, duration, the decoded buffer and the
\* output nodes as they were, and the track's onEnded callback is not invoked.
C3_StopCancelsLoad ==
    [][halted = "stopped" =>
          /\ \A r \in requests : RequestStep(r) =>
                /\ nextState' = nextState
                /\ audioBufferRef' = audioBufferRef
                /\ nodes' = nodes
                /\ audioSourceRef' = audioSourceRef
          /\ endedCalls' <= endedCalls
    ]_vars

\* the node held in audioSourceRef was started by loadAndPlay and has emitted its
\* whole buffer
PlayedToEnd ==
    /\ audioSourceRef # NoNode
    /\ audioSourceRef \in DOMAIN nodes
    /\ nodes[audioSourceRef].origin = "load"
    /\ nodes[audioSourceRef].pos >= nodes[audioSourceRef].duration

\* the clock cells of that node were not rewritten by a seek since it started
ClockUntouched == ~nodes[audioSourceRef].seeked /\ nodes[audioSourceRef].constSpeed

C5_NoChainingWhenHalted == [][endedCalls' > endedCalls => halted = "no"]_vars

\* the node held in audioSourceRef plays at one speed from a start that no later
\* seekTo has overwritten
SteadyNode ==
    /\ audioSourceRef # NoNode
    /\ audioSourceRef \in DOMAIN nodes
    /\ ClockUntouched

\* C6 - pause/resume round trip.  pause() on a node started at offset o at device
\* time t0 with speed s stores o + (now - t0) * s as the resume offset, which is
\* the position the node has reached unless it is at its end; the playPause() that
\* follows starts a node at exactly the stored offset and leaves the offset as it
\* is; and a position sampled on a resumed node is that offset plus the device
\* time elapsed since the resume times s.
C6_PauseResumeRoundTrip ==
    [][/\ (PlayPause /\ audioState.status = "playing" /\ SteadyNode) =>
             LET node == nodes[audioSourceRef]
             IN  /\ playbackPausedAtRef' =
                        node.offset + (ctxTime - node.startAt) * node.rate
                 /\ node.pos < node.duration => playbackPausedAtRef' = node.pos
                 /\ nextState'.status = "paused"
                 /\ nodes' = <<>>
       /\ (PlayPause /\ audioState.status = "paused" /\ audioBufferRef # NoBuffer
             /\ playbackPausedAtRef >= 0) =>
             /\ audioSourceRef' # NoNode
             /\ nodes'[audioSourceRef'].offset = playbackPausedAtRef
             /\ nodes'[audioSourceRef'].startAt = ctxTime
             /\ playbackStartedAtRef' = ctxTime
             /\ playbackPausedAtRef' = playbackPausedAtRef
             /\ nextState'.status = "playing"
       /\ (UpdateProgress /\ audioStateRef.status = "playing" /\ SteadyNode
             /\ nodes[audioSourceRef].origin = "resume"
             /\ nextState'.status = "playing") =>
             LET node == nodes[audioSourceRef]
             IN  nextState'.currentTime =
                     node.offset + (ctxTime - node.startAt) * node.rate
    ]_vars

\* A node resumed from a non-zero offset has been sampled past that offset.
C6_Witness ==
    /\ audioSourceRef # NoNode
    /\ nodes[audioSourceRef].origin = "resume"
    /\ nodes[audioSourceRef].offset > 0
    /\ nextState.status = "playing"
    /\ nextState.currentTime > nodes[audioSourceRef].offset

\* t clamped to [0, duration]
Clamp(t, duration) == IF t < 0 THEN 0 ELSE IF t > duration THEN duration ELSE t

\* C7 - seekTo clamps.  For every time t passed to seekTo while a buffer is loaded,
\* the resume offset and the displayed currentTime become min(max(t, 0), duration).
C7_SeekToClamps ==
    [][\A t \in SeekTimes :
          (SeekTo(t) /\ audioBufferRef # NoBuffer) =>
             /\ playbackPausedAtRef' = Clamp(t, audioBufferRef.duration)
             /\ nextState'.currentTime = Clamp(t, audioBufferRef.duration)
    ]_vars

\* C8 - seek while paused does not start playback.  seekTo(t) with t inside
\* [0, duration] while status is paused sets currentTime and the resume offset to
\* t and changes nothing else: status stays paused, no node is created, and track,
\* buffer, duration, volume, mute and speed are as before.
C8_SeekWhilePaused ==
    [][\A t \in SeekTimes :
          (/\ SeekTo(t)
           /\ audioState.status = "paused"
           /\ nextState.status = "paused"
           /\ audioBufferRef # NoBuffer
           /\ 0 <= t /\ t <= nextState.duration) =>
             /\ nextState' = [nextState EXCEPT !.currentTime = t]
             /\ playbackPausedAtRef' = t
             /\ nodes' = <<>>
             /\ audioSourceRef' = NoNode
             /\ ~animationFrameRef'
             /\ audioBufferRef' = audioBufferRef
             /\ nextConfig' = nextConfig
    ]_vars

\* A paused track was sought to an inner position.
C8_Witness ==
    /\ seekedWhilePaused
    /\ nextState.status = "paused"
    /\ nextState.currentTime = 1
    /\ playbackPausedAtRef = 1
    /\ nextState.duration >= 1
    /\ nodes = <<>>

\* C9 - position is monotonic under constant speed.  While status is playing on
\* a node that plays at one speed and was not sought, a position poll that does
\* not find the end of the buffer produces a currentTime that is no less than the
\* one displayed before it, and less than duration.
C9_PositionMonotonic ==
    [][(UpdateProgress /\ audioStateRef.status = "playing" /\ SteadyNode
          /\ nextState.status = "playing" /\ nextState'.status = "playing") =>
             /\ nextState'.currentTime >= nextState.currentTime
             /\ nextState'.currentTime < nextState.duration
    ]_vars

\* Two ticks into a track of three, the poll has sampled position 2.
C9_Witness ==
    /\ nextState.status = "playing"
    /\ audioSourceRef # NoNode
    /\ nodes[audioSourceRef].offset = 0
    /\ nodes[audioSourceRef].rate = 1
    /\ ~nodes[audioSourceRef].seeked
    /\ nextState.currentTime = 2
    /\ animationFrameRef

\* C10 - cache hit skips synthesis.  When the lookup of a loadAndPlay resolves and
\* the cache holds an entry under voice + "::" + text, the call goes on to decode
\* the cached bytes and never reaches the synthesis service; a call that got its
\* bytes from the cache and is still the current one stores the buffer decoded
\* from those bytes and starts playing it.
C10_CacheHitSkipsSynthesis ==
    [][\A r \in requests :
          /\ (GetAudioResolve(r) /\ (r.voice \o "::" \o r.text) \in DOMAIN cache) =>
                /\ \E q \in requests' :
                      /\ q.gen = r.gen
                      /\ q.pc = "decodeAudioData"
                      /\ q.bytes = cache[r.voice \o "::" \o r.text]
                /\ ~ \E q \in requests' : q.gen = r.gen /\ q.pc = "generateSpeech"
                /\ pendingWrites' = pendingWrites
          /\ (DecodeResolve(r) /\ r.hit /\ r.gen = generationIdRef) =>
                /\ audioBufferRef'.bytes = r.bytes
                /\ audioSourceRef' # NoNode
                /\ nextState'.status = "playing"
    ]_vars

\* The first track is playing from the entry the cache held from the start.
C10_Witness ==
    /\ generationIdRef = 1
    /\ audioConfig.voice = "Kore"
    /\ nextState.trackInfo.text = "a"
    /\ nextState.status = "playing"
    /\ DOMAIN cache = {"Kore::a"}
    /\ audioBufferRef.bytes = cache["Kore::a"]
    /\ pendingWrites = {}

\* C11 - write-through on synthesis success.  Whenever the synthesis of a request
\* returns audio, superseded or not, a write of those bytes under
\* voice + "::" + text is issued; a write that succeeds puts the bytes in the
\* cache under its key.
C11_WriteThrough ==
    [][/\ \A r \in requests :
             GenerateSpeechResolve(r) =>
                \E w \in pendingWrites' :
                   /\ w.key = r.voice \o "::" \o r.text
                   /\ w.bytes = Synthesize(r.text, r.voice)
       /\ \A w \in pendingWrites :
             StoreAudioResolve(w) =>
                w.key \in DOMAIN cache' /\ cache'[w.key] = w.bytes
    ]_vars

\* C14 - load failure moves to error.  When the synthesis call or the decode of
\* the current request fails, status becomes error with a non-empty errorMessage,
\* and there is no output node and no decoded buffer; when the synthesis call or
\* the decode of a superseded request fails, the state, the buffer and the nodes
\* are left as they were.
C14_LoadFailureToError ==
    [][\A r \in requests :
          (GenerateSpeechReject(r) \/ DecodeReject(r)) =>
             IF r.gen = generationIdRef
             THEN /\ nextState'.status = "error"
                  /\ nextState'.errorMessage # NoError
                  /\ nextState'.errorMessage \in {SynthesisErrorMessage, LoadErrorMessage}
                  /\ nodes' = <<>>
                  /\ audioSourceRef' = NoNode
                  /\ audioBufferRef' = NoBuffer
             ELSE /\ nextState' = nextState
                  /\ nodes' = nodes
                  /\ audioSourceRef' = audioSourceRef
                  /\ audioBufferRef' = audioBufferRef
    ]_vars

\* The synthesis of the second loadAndPlay has failed and left the error state.
C14_Witness ==
    /\ generationIdRef = 2
    /\ nextState.status = "error"
    /\ nextState.errorMessage = SynthesisErrorMessage
    /\ nodes = <<>>
    /\ audioBufferRef = NoBuffer

\* C15 - error auto-recovery.  Once status is error and the user does nothing
\* more, status eventually returns to idle.
C15_ErrorAutoRecovery == (nextState.status = "error") ~> (nextState.status = "idle")

\* C16 - the transport stays usable after an error.  From status error a
\* loadAndPlay moves status to loading and starts the lookup of a new current
\* request, and stopAudio() moves status to idle; the decode of the current
\* request, when it succeeds, starts a node and moves status to playing, whatever
\* errors came before.
C16_UsableAfterError ==
    [][/\ \A track \in Tracks :
             (LoadAndPlay(track) /\ nextState.status = "error") =>
                /\ nextState'.status = "loading"
                /\ nextState'.trackInfo = track
                /\ \E q \in requests' : q.gen = generationIdRef' /\ q.pc = "getAudio"
       /\ (StopAudio /\ nextState.status = "error") => nextState'.status = "idle"
       /\ \A r \in requests :
             (DecodeResolve(r) /\ r.gen = generationIdRef) =>
                /\ nextState'.status = "playing"
                /\ audioSourceRef' # NoNode
                /\ audioBufferRef' # NoBuffer
    ]_vars

\* The second loadAndPlay is playing although the first one failed: the message
\* of that failure is still in the state.
C16_Witness ==
    /\ generationIdRef = 2
    /\ nextState.status = "playing"
    /\ nextState.errorMessage # NoError
    /\ audioSourceRef # NoNode

\* C17 - a cache read failure is never surfaced.  When the cache lookup of a
\* request fails, the request goes on as on a miss, to the synthesis call, and the
\* status does not become error.
C17_CacheReadFailureHidden ==
    [][\A r \in requests :
          GetAudioReject(r) =>
             /\ \E q \in requests' : q.gen = r.gen /\ q.pc = "generateSpeech"
             /\ nextState'.status = "error" => nextState.status = "error"
    ]_vars

\* C18 - empty text is rejected before any network call.  A request whose text is
\* empty or only whitespace is never sent to the speech model: after the cache
\* miss its generateSpeech call is pending without a request sent, it never
\* resolves, and when it rejects for the current request status becomes error.
C18_BlankTextRejected ==
    [][/\ \A q \in requests' : q.text \in {"", " "} => ~q.sent
       /\ \A r \in requests :
             r.text \in {"", " "} =>
                /\ ~GenerateSpeechResolve(r)
                /\ GetAudioResolve(r) =>
                      \E q \in requests' : q.gen = r.gen /\ q.pc = "generateSpeech"
                /\ (GenerateSpeechReject(r) /\ r.gen = generationIdRef) =>
                      /\ nextState'.status = "error"
                      /\ nextState'.errorMessage = SynthesisErrorMessage
                      /\ nodes' = <<>>
    ]_vars

\* A loadAndPlay with a whitespace text has ended in error.
C18_Witness ==
    /\ nextState.status = "error"
    /\ nextState.trackInfo.text = " "
    /\ nextState.errorMessage = SynthesisErrorMessage
    /\ requests = {}

\* C19 - errorMessage is present only in error.  In every reachable state, queued
\* or rendered, errorMessage is non-empty only if status is error.
C19_ErrorMessageOnlyInError ==
    /\ nextState.errorMessage # NoError => nextState.status = "error"
    /\ audioState.errorMessage # NoError => audioState.status = "error"

\* the status transitions of the lifecycle, as pairs <<from, to>>
Lifecycle ==
    ({"idle", "loading", "playing", "paused", "error"} \X {"loading", "idle"})
    \cup {<<"loading", "playing">>, <<"loading", "error">>, <<"playing", "paused">>,
          <<"paused", "playing">>, <<"playing", "playing">>}

\* C20 - status follows the lifecycle.  Every step that changes status changes it
\* along one of the lifecycle's transitions, and a step that sets loading is a
\* loadAndPlay; in particular status never goes from idle or error to playing or
\* paused.
C20_StatusLifecycle ==
    [][nextState'.status # nextState.status =>
          /\ <<nextState.status, nextState'.status>> \in Lifecycle
          /\ nextState'.status = "loading" => \E track \in Tracks : LoadAndPlay(track)
    ]_vars

\* The paragraph player has come to rest: nothing is loading, no node is held and
\* every queued update is rendered.
ParagraphsAtRest ==
    /\ paragraphApp.requests = {}
    /\ paragraphApp.audioSourceRef = NoSource
    /\ ~ParagraphRenderPending

\* C12: chapter playback started once at paragraph 0 and left alone, with every load
\* succeeding, comes to rest only after each paragraph p0..pk has been played exactly
\* once in index order, with status idle and chapter playback idle.
C12_ParagraphChain ==
    (paragraphApp.toggles = 1 /\ ~paragraphApp.failed /\ ParagraphsAtRest) =>
        /\ paragraphApp.played = [i \in 1..Len(Paragraphs) |-> i - 1]
        /\ paragraphApp.audioState.status = "idle"
        /\ paragraphApp.chapterPlaybackState = "idle"

\* C13: when a full-chapter track ends naturally and its chapter has a successor in
\* the visible list, the selection moves to the successor and the render that
\* follows issues a loadAndPlay for the successor's content with a chaining
\* callback; when the chapter is the last visible one, no loadAndPlay is issued and
\* status stays idle.
C13_ChapterAdvance ==
    [][/\ (ChapterTrackEnds /\ ~chapterApp.audioState.trackInfo.summary) =>
            LET finished == chapterApp.audioState.trackInfo.chapterIndex
                nextVisibleIndex == FindIndex(finished) + 1
            IN  /\ chapterApp'.calls = chapterApp.calls
                /\ chapterApp'.nextState.status = "idle"
                /\ IF FindIndex(finished) # 0 /\ nextVisibleIndex <= Len(VisibleChapters)
                   THEN /\ chapterApp'.nextSelectedChapterIndex =
                               VisibleChapters[nextVisibleIndex]
                        /\ chapterApp'.autoPlayOnChapterChangeRef
                   ELSE UNCHANGED <<chapterApp.nextSelectedChapterIndex,
                                    chapterApp.autoPlayOnChapterChangeRef>>
       /\ (/\ ChapterRender
           /\ chapterApp.autoPlayOnChapterChangeRef
           /\ chapterApp.nextSelectedChapterIndex # chapterApp.selectedChapterIndex) =>
            LET next == chapterApp.nextSelectedChapterIndex
            IN  /\ chapterApp'.selectedChapterIndex = next
                /\ chapterApp'.nextState.status = "loading"
                /\ chapterApp'.calls = Append(chapterApp.calls,
                       [track |-> [chapterIndex |-> next, summary |-> FALSE],
                        onEnded |-> [isPlayingSummary |-> FALSE,
                                     selectedChapterIndex |-> next]])
      ]_vars

\* C21: while status is loading, and as long as the async work of the latest
\* loadAndPlay is pending, there is no decoded buffer and no output node, whatever
\* the requests of older generations do.
C21_LoadingHasNoBuffer ==
    (nextState.status = "loading" \/ \E r \in requests : IsCurrent(r)) =>
        /\ audioBufferRef = NoBuffer
        /\ audioSourceRef = NoNode
        /\ nodes = <<>>

\* A second loadAndPlay interrupted a playing track while the first call's cache
\* write was still pending.
C21_Witness ==
    /\ nextState.status = "loading"
    /\ generationIdRef = 2
    /\ ctxTime > 0
    /\ \E r \in requests : ~IsCurrent(r)

\* C22: a playPause call made while status is loading, error or idle changes
\* nothing: status, track, currentTime, buffer, resume offset and the output nodes
\* stay as they are.
C22_PlayPauseNoOp ==
    [][(PlayPause /\ nextState.status \in {"loading", "error", "idle"}) =>
           UNCHANGED <<nextState, audioBufferRef, playbackPausedAtRef, audioSourceRef,
                       nodes>>
      ]_vars

\* C23: in every state, stop(true) would leave no node held and no frame callback
\* scheduled, with track, buffer and resume offset cleared, currentTime and duration
\* 0 and status idle; stop(false) would tear down the node held and cancel the frame
\* callback and leave buffer, resume offset and the whole state (status, track,
\* currentTime, duration) as they are.
C23_StopFrame ==
    LET full == stop(H, TRUE)
        partial == stop(H, FALSE)
    IN  /\ full.audioSourceRef = NoNode
        /\ audioSourceRef \notin DOMAIN full.nodes
        /\ ~full.animationFrameRef
        /\ full.nextState.status = "idle"
        /\ full.nextState.trackInfo = NoTrack
        /\ full.nextState.currentTime = 0
        /\ full.nextState.duration = 0
        /\ full.audioBufferRef = NoBuffer
        /\ full.playbackPausedAtRef = 0
        /\ partial.audioSourceRef = NoNode
        /\ audioSourceRef \notin DOMAIN partial.nodes
        /\ ~partial.animationFrameRef
        /\ partial.nextState = nextState
        /\ partial.audioBufferRef = audioBufferRef
        /\ partial.playbackPausedAtRef = playbackPausedAtRef

\* stopAudio() has ended a track that had been playing for a while.
C23_Witness ==
    /\ halted = "stopped"
    /\ ctxTime > 0
    /\ nextState.status = "idle"
    /\ nextState.trackInfo = NoTrack
    /\ audioBufferRef = NoBuffer
    /\ nodes = <<>>
    /\ requests = {}

\* C24: when the speed the position formula uses changes while a track is playing,
\* the position computed just after the change equals the position computed just
\* before it.
C24_SpeedChangeContinuous ==
    [][(/\ audioStateRef'.speed # audioStateRef.speed
        /\ audioStateRef.status = "playing"
        /\ audioStateRef'.status = "playing"
        /\ audioSourceRef # NoNode
        /\ audioSourceRef' = audioSourceRef) =>
           Position(playbackPausedAtRef', playbackStartedAtRef', ctxTime',
                    audioStateRef'.speed)
             = Position(playbackPausedAtRef, playbackStartedAtRef, ctxTime,
                        audioStateRef.speed)
      ]_vars

\* C25: a handleVolumeChange or handleMuteToggle call, in any status, creates and
\* tears down no output node and leaves status, track, buffer, resume offset, clock
\* anchor, currentTime and duration unchanged.
C25_VolumeKeepsPlayback ==
    [][((\E newVolume \in Volumes : HandleVolumeChange(newVolume)) \/ HandleMuteToggle) =>
           /\ UNCHANGED <<nodes, audioSourceRef, audioBufferRef, playbackPausedAtRef,
                          playbackStartedAtRef, audioContextRef, gainNodeRef>>
           /\ nextState' = [nextState EXCEPT !.volume = nextState'.volume,
                                             !.isMuted = nextState'.isMuted]
      ]_vars

\* The volume of the track playing has been set to 0, which mutes it, some time
\* after it started.
C25_Witness ==
    /\ nextState.status = "playing"
    /\ audioSourceRef # NoNode
    /\ nodes[audioSourceRef].pos > 0
    /\ nextState.isMuted
    /\ nextState.volume = 0
    /\ gainValue = 0

C27_OutputSingletons ==
    [][/\ audioContextRef' # audioContextRef => audioContextRef = "null"
       /\ gainNodeRef' # gainNodeRef => gainNodeRef = NoNode
      ]_vars

\* The second track plays through the gain node the first track created.
C27_Witness ==
    /\ generationIdRef = 2
    /\ nextState.status = "playing"
    /\ audioSourceRef # NoNode
    /\ detachedEnded = "pending"
    /\ audioContextRef = "running"
    /\ gainNodeRef = 1

\* The stored item parses to an object whose voice is one of the known voices and
\* whose speed is a number.
ValidConfig(saved) ==
    /\ saved.kind = "object"
    /\ saved.voice.type = "string"
    /\ saved.voice.string \in AVAILABLE_VOICES
    /\ saved.speed.type = "number"

\* C28: the config an initializer returns is the stored one when that is valid, and
\* {voice: Kore, speed: 1} in every other case.
C28_ConfigValidated ==
    LET expected == IF ValidConfig(savedConfig)
                    THEN [voice |-> savedConfig.voice, speed |-> savedConfig.speed]
                    ELSE Field(DefaultConfig)
    IN  /\ audioConfig # Unmounted => Field(audioConfig) = expected
        /\ paragraphApp.audioConfig # NoConfig => paragraphApp.audioConfig = expected


\* ------------------------------------------------------------------ C29
\* C29: for each (client IP, endpoint) pair, a request that comes when no window is
\* open for the pair (none was opened yet, or the reset time of the last one has
\* passed) is let through and opens a window that ends one window length later; a
\* request that comes while the window is open and has already let max requests
\* through (10 for generate-plan, 30 for generate-summary, 100 for generate-speech)
\* is answered 429; so no window ever lets more than max requests through.
C29_RateLimitPerWindow ==
    [][\A request \in ApiRequests :
        Handler(request[1], request[2]) =>
            LET key == StoreKey(request[1], request[2])
                window == server.window[key]
                max == CASE request[2] = "generate-plan" -> 10
                         [] request[2] = "generate-summary" -> 30
                         [] request[2] = "generate-speech" -> 100
                open == window # NoWindow /\ ~(server.now > window.resetAt)
            IN  /\ ~open => /\ server'.status = 200
                            /\ server'.window[key].allowed = 1
                            /\ server'.window[key].resetAt = server.now + 3600000
                /\ open /\ window.allowed >= max => server'.status = 429
                /\ server'.window[key].allowed <= max]_vars

\* Each endpoint has answered 429 to a client whose window was full, and the same
\* client's first request after the reset time has opened a new window: the last
\* request let through is the first of a window opened after time 0 for a key
\* whose earlier window was full.
C29_Witness ==
    /\ server.status = 200
    /\ \E request \in ApiRequests :
        LET key == StoreKey(request[1], request[2])
        IN  /\ request[2] = "generate-speech"
            /\ server.window[key].allowed = 1
            /\ server.window[key].resetAt > 3600000
            /\ server.rateLimitStore[key].count = 1
    /\ \E request \in ApiRequests :
        /\ request[2] = "generate-plan"
        /\ server.window[StoreKey(request[1], request[2])].allowed = 10
        /\ server.rateLimitStore[StoreKey(request[1], request[2])].count > 10
    /\ \E request \in ApiRequests :
        /\ request[2] = "generate-summary"
        /\ server.window[StoreKey(request[1], request[2])].allowed = 30
        /\ server.rateLimitStore[StoreKey(request[1], request[2])].count > 30


\* ------------------------------------------------------------------ C30
\* C30: seekTo(t) with 0 <= t <= duration while the status is playing leaves exactly
\* one node, a new one started at offset t at the current device time, with the
\* clock anchored there (playbackStartedAtRef = the device time, playbackPausedAtRef
\* = t), the status playing and the position poll scheduled; and a poll that then
\* samples a position before the end of the buffer displays the node's offset plus
\* the device time elapsed since its start times the speed.
C30_SeekWhilePlaying ==
    [][/\ \A t \in SeekTimes :
            (/\ SeekTo(t)
             /\ nextState.status = "playing"
             /\ audioBufferRef # NoBuffer
             /\ 0 <= t /\ t <= nextState.duration) =>
                /\ Cardinality(DOMAIN nodes') = 1
                /\ audioSourceRef' \in DOMAIN nodes'
                /\ nodes'[audioSourceRef'].origin = "seek"
                /\ nodes'[audioSourceRef'].offset = t
                /\ nodes'[audioSourceRef'].startAt = ctxTime
                /\ nodes'[audioSourceRef'].pos = t
                /\ playbackStartedAtRef' = ctxTime
                /\ playbackPausedAtRef' = t
                /\ nextState'.status = "playing"
                /\ nextState'.currentTime = t
                /\ animationFrameRef'
       /\ (/\ UpdateProgress
           /\ audioStateRef.status = "playing"
           /\ audioSourceRef \in DOMAIN nodes
           /\ nodes[audioSourceRef].origin = "seek"
           /\ nextState'.status = "playing") =>
                nextState'.currentTime =
                    Position(nodes[audioSourceRef].offset, nodes[audioSourceRef].startAt,
                             ctxTime, nodes[audioSourceRef].rate)
    ]_vars


\* ------------------------------------------------------------------ C31
\* C31: while the status is playing and the node that play() started is held, a
\* position poll is pending: every poll that does not find the end of the buffer
\* schedules the next one, the first poll after play() included.
C31_PollingAlive ==
    (nextState.status = "playing" /\ audioSourceRef \in DOMAIN nodes) => animationFrameRef


\* ------------------------------------------------------------------ C32
\* C32: in every reachable state an output node that was started and not torn down
\* exists exactly when the status is playing (none exists in idle, loading, paused
\* or error), and whenever one exists a decoded buffer is held.
C32_ActiveNodeMatchesStatus ==
    /\ (DOMAIN nodes # {}) <=> (nextState.status = "playing")
    /\ (DOMAIN nodes # {}) => (audioBufferRef # NoBuffer /\ audioBufferRef.duration > 0)


\* ------------------------------------------------------------------ C33
\* C33: in every reachable state whose status is playing or paused, the track
\* reference is set, a decoded buffer is held and the duration displayed is the
\* buffer's duration.
C33_PlayingHasTrack ==
    nextState.status \in {"playing", "paused"} =>
        /\ nextState.trackInfo # NoTrack
        /\ audioBufferRef # NoBuffer
        /\ audioBufferRef.duration > 0
        /\ nextState.duration = audioBufferRef.duration


\* ------------------------------------------------------------------ C34
\* C34: whenever the gain node exists, the value last set on its gain is 0 if the
\* state is muted and the volume otherwise: play, handleVolumeChange and
\* handleMuteToggle each leave it so; and handleVolumeChange(v) sets the volume to
\* v and isMuted to (v = 0).
C34_GainMatchesMuteVolume ==
    [][/\ gainNodeRef' # NoNode =>
            gainValue' = IF nextState'.isMuted THEN 0 ELSE nextState'.volume
       /\ \A newVolume \in Volumes :
            HandleVolumeChange(newVolume) =>
                /\ nextState'.volume = newVolume
                /\ nextState'.isMuted = (newVolume = 0)
    ]_vars

\* The track playing was muted with the button: the state is muted at volume 1 (the
\* slider would have set the volume to 0) and the gain node holds 0.
C34_Witness ==
    /\ gainNodeRef # NoNode
    /\ nextState.status = "playing"
    /\ nextState.isMuted
    /\ nextState.volume = 1
    /\ gainValue = 0
    /\ DOMAIN nodes # {}


\* ------------------------------------------------------------------ C35
\* C35: two consecutive handleMuteToggle calls leave isMuted and the gain value as
\* they were before the first.  A call made when every earlier one is rendered flips
\* isMuted and sets the gain to match; and in every state where one call's update is
\* queued and not yet rendered, the call that follows takes isMuted back to the
\* rendered value and the gain to the value that goes with it.
C35_MuteToggleInvolution ==
    /\ [][(HandleMuteToggle /\ nextState.isMuted = audioState.isMuted) =>
            /\ nextState'.isMuted = ~nextState.isMuted
            /\ gainNodeRef # NoNode =>
                 gainValue' = IF nextState'.isMuted THEN 0 ELSE nextState.volume]_vars
    /\ [](nextState.isMuted # audioState.isMuted =>
            LET second == handleMuteToggle(H)
            IN  /\ second.nextState.isMuted = audioState.isMuted
                /\ gainNodeRef # NoNode =>
                     second.gainValue = IF audioState.isMuted THEN 0
                                        ELSE audioState.volume)


\* ------------------------------------------------------------------ C36
\* C36: a pause invoked when a pause was already made and no play since (the status
\* queued is paused), be it from a render that still shows playing, leaves the
\* resume offset as the first pause set it: elapsed time is not added twice.
C36_PauseIdempotent ==
    [][((PlayPause \/ PlayPauseBatched)
          /\ audioState.status = "playing"
          /\ nextState.status = "paused"
          /\ audioBufferRef # NoBuffer) =>
             playbackPausedAtRef' = playbackPausedAtRef]_vars


\* ------------------------------------------------------------------ C37
\* C37: once the unmount cleanup has run, no output node is active and no audio
\* context is open, whatever the loadAndPlay calls in flight at that moment do when
\* their cache lookup, synthesis or decode completes.
C37_TeardownFinal ==
    ~mounted => (DOMAIN nodes = {} /\ audioSourceRef = NoNode /\ audioContextRef # "running")


\* ------------------------------------------------------------------ C38
\* C38: when a timer set by a failed toggleAudio fires while another track, started
\* after the failure, is loading or playing, the firing leaves that track's status
\* and its chapter and paragraph indices as they are.
C38_TimerClearsOwnError ==
    [][(ToggleTimer /\ togglePlayer.nextState.status \in {"loading", "playing"}) =>
          /\ togglePlayer'.nextState.status = togglePlayer.nextState.status
          /\ togglePlayer'.nextState.chapterIndex = togglePlayer.nextState.chapterIndex
          /\ togglePlayer'.nextState.paragraphIndex = togglePlayer.nextState.paragraphIndex
    ]_vars


\* ------------------------------------------------------------------ C39
\* C39: when a summary track started by handlePlaySummary finishes naturally, the
\* callback issues at once one loadAndPlay, for the full content of the chapter the
\* summary belongs to (same chapter index, title without the prefix), and the
\* selection does not move to another chapter.
C39_SummaryThenChapter ==
    [][(ChapterTrackEnds /\ chapterApp.audioState.trackInfo.summary) =>
          /\ Len(chapterApp'.calls) = Len(chapterApp.calls) + 1
          /\ chapterApp'.calls[Len(chapterApp'.calls)].track =
                [chapterIndex |-> chapterApp.audioState.trackInfo.chapterIndex,
                 summary |-> FALSE]
          /\ chapterApp'.nextSelectedChapterIndex =
                chapterApp.audioState.trackInfo.chapterIndex
    ]_vars

====
